---------------------------- MODULE Spec2Model ----------------------------
(***************************************************************************)
(* Price aggregation and resilience layer of the GalaSwap trading bot.     *)
(*                                                                         *)
(*   ErrorRecovery   (src/error-recovery.js)   retry loop + circuit breaker*)
(*   PriceService    (src/price-service.js)    limiter, adapters, compare  *)
(*   server          (src/real-trading-server-optimized.js)                *)
(*                                             price caches, /api/swap     *)
(*                                                                         *)
(* Time.  The sources stamp events with Date.now() and only ever use the   *)
(* difference between Date.now() and a stamp.  The model keeps that        *)
(* difference: for a stamp field t of the sources it holds "Date.now() - t"*)
(* in whole seconds, 0 when the field is stamped, one more at every Tick,  *)
(* and saturating at a cap above every threshold it is compared with.  A   *)
(* pending timer is kept as the seconds left until it fires.               *)
(* Prices are counted in units of 0.0001 USD; a mean is kept as the exact  *)
(* fraction <<sum, count>>.                                                *)
(***************************************************************************)
EXTENDS Integers, Sequences, FiniteSets, TLC

VARIABLES
    \* ---- ErrorRecovery ----
    circuitBreaker, \* this.circuitBreaker: state, failureCount and
                    \* sinceFailure = Date.now() - lastFailureTime
    pc,             \* per caller: where its executeWithRetry call stands
    attempt,        \* per caller: the loop variable `attempt`
    timer,          \* per caller: seconds left of its pending delay(ms)
    lastError,      \* per caller: the error its last call threw, or "none"
    obs,            \* per caller: what the call in progress did (history)
    streak,         \* while CLOSED: failures of fn since fn last succeeded
    sinceOpened,    \* while OPEN: seconds since the breaker opened (history)
    config,         \* per caller: `config` of its current (or last) call
    failedDeps,     \* the dependencies whose calls failed since failureCount
                    \* was last 0 (history)
    \* ---- PriceService ----
    priceSources,   \* this.priceSources: enabled and
                    \* sinceRequest = Date.now() - lastRequest, per source
    cache,          \* this.cache, key 'comprehensive_prices'
    req,            \* per request: the getAllPrices call it is running
    sinceSent,      \* per source: seconds since a request was last sent to
                    \* it (history)
    sentCount,      \* per source: how many requests were sent to it, counted
                    \* up to MaxSent (history)
    \* ---- server ----
    priceCache,     \* priceCache, key 'token_prices'
    served,         \* the price answer returned by the step just taken
    sincePriced,    \* per token: seconds since a pass last computed its
                    \* price (history), Never before the first one
    walletAddress,  \* global walletAddress
    privateKey,     \* global privateKey
    gswapWithSigner,\* global gswapWithSigner: the signing SDK instance
    swap,           \* per POST /api/swap request: where its handler is
    rateLimiter,    \* rateLimiter: per client the recorded request times,
                    \* each as Date.now() - time
    allowed,        \* per client: what its last checkRateLimit call returned
    admitted,       \* per client: the ages of the calls admitted within the
                    \* trailing window (history)
    \* ---- page (browser) ----
    apiCache,       \* APICache.cache: the Map's entries in insertion order
    apiNow,         \* Date.now() of the page, in clock readings
    apiStats,       \* APICache.stats, the size field
    apiReturned,    \* the APICache call just made: what set stored, what
                    \* get or fetch returned
    apiFetches,     \* the network requests APICache.fetch is waiting for
    timerManager    \* window.timerManager with the browser's timer table:
                    \* timeouts and intervals (id -> native timer id),
                    \* isDestroyed, stats.activeTimers; pending (the native
                    \* timers not yet fired or cleared), next (the native id
                    \* the browser hands out next); ran and cancelled (the
                    \* native ids whose callback ran / was cancelled, history)
    ,
    domBatcher      \* window.domBatcher: updateQueue, isProcessing,
                    \* processingInterval (whether the interval is set);
                    \* executed (per update id: how often its function ran
                    \* since it was queued), dropped (the ids clear() threw
                    \* away unprocessed), returned (the call that returned
                    \* last), all history; hung (a loop that never ends is
                    \* running: the page no longer responds)
    ,
    localStorage,   \* window.localStorage: per key the stored text, or NoItem
    storageReturned \* the MemoryOptimizer call just made: the key and value
                    \* setItem was given, the key and result of getItem

breakerVars == <<circuitBreaker, pc, attempt, timer, lastError, obs, streak,
                 sinceOpened, config, failedDeps>>

priceVars ==
    <<priceSources, cache, req, sinceSent, sentCount, priceCache, served,
      sincePriced>>
swapVars == <<walletAddress, privateKey, gswapWithSigner, swap>>
limiterVars == <<rateLimiter, allowed, admitted>>
apiCacheVars == <<apiCache, apiNow, apiStats, apiReturned, apiFetches>>

\* the state of the scripts that run in the page
storageVars == <<localStorage, storageReturned>>

pageVars == <<apiCacheVars, timerManager, domBatcher, storageVars>>

vars == <<breakerVars, priceVars, swapVars, limiterVars, pageVars>>

---------------------------------------------------------------------------
(* Bounds of the model *)

\* no new executeWithRetry call starts once failureCount has reached this
MaxFailureCount == 8

\* how far above a threshold an age is still counted
AgeSlack == 0

Callers == {"c1", "c2"}

\* RATE_LIMIT_WINDOW in seconds and MAX_REQUESTS_PER_WINDOW, scaled down: the
\* sources have 60000 ms and 200 (100 in server-optimizations.js);
\* checkRateLimit is the same code for any positive values
RATE_LIMIT_WINDOW == 3

MAX_REQUESTS_PER_WINDOW == 2

\* requests sent to a source are counted up to this; a count that has
\* reached it stands for "this many or more"
MaxSent == 2

\* the page's clock stops at this reading
MaxNow == 2

\* APICache.maxCacheSize, scaled down: the sources have 100; set and
\* evictOldest are the same code for any positive value
maxCacheSize == 2

\* the significand of a Number in bits, scaled down: the sources compute in
\* IEEE 754 doubles, which have 53; rounding is the same rule at any width
Precision == 10

\* MemoryOptimizer.maxStorageSize in characters, scaled down: the sources
\* have 5 * 1024 * 1024
maxStorageSize == 20

\* DOMBatcher.batchSize, scaled down: the sources have 10; processQueue
\* takes the first batchSize updates whatever the value
batchSize == 2

\* at most this many updates are queued at a time
MaxQueue == 3

\* the browser hands out at most this many native timer ids
MaxHandles == 4

\* APICache.fetch waits for at most this many network requests at a time
MaxFetches == 1

\* APICache.defaultTTL in clock readings, scaled down: the sources have 30000
defaultTTL == 2

---------------------------------------------------------------------------
(* ErrorRecovery: configuration (constructor, src/error-recovery.js:7-31)  *)

maxRetries == 3

baseDelay == 1

maxDelay == 10

backoffMultiplier == 2

failureThreshold == 5

recoveryTimeout == 30

Min(a, b) == IF a <= b THEN a ELSE b

RECURSIVE Pow(_, _)
Pow(b, e) == IF e = 0 THEN 1 ELSE b * Pow(b, e - 1)

\* this.retryConfig, as far as the wrappers override it
retryConfig == [maxRetries |-> maxRetries, baseDelay |-> baseDelay]

\* the delay as it would be without the cap
DelayUncapped(cfg, k) == cfg.baseDelay * Pow(backoffMultiplier, k)

\* Math.min(config.baseDelay * Math.pow(config.backoffMultiplier, attempt),
\*          config.maxDelay)
Delay(cfg, k) == Min(cfg.baseDelay * Pow(backoffMultiplier, k), maxDelay)

\* the delay under the default retryConfig
BackoffDelay(k) == Delay(retryConfig, k)

\* an age one second later, saturating above the threshold it is compared with
Older(age, threshold) == Min(age + 1, threshold + AgeSlack)

NoObs == [startedOpen |-> FALSE, fnInvoked |-> FALSE, recorded |-> 0,
          trial |-> FALSE, reset |-> FALSE, invoked |-> 0,
          dependency |-> "none"]

\* lastFailureTime: 0 at construction, i.e. long ago
InitBreaker ==
    /\ circuitBreaker = [state |-> "CLOSED", failureCount |-> 0,
                         sinceFailure |-> recoveryTimeout + AgeSlack]
    /\ pc = [c \in Callers |-> "idle"]
    /\ attempt = [c \in Callers |-> 0]
    /\ timer = [c \in Callers |-> 0]
    /\ lastError = [c \in Callers |-> "none"]
    /\ obs = [c \in Callers |-> NoObs]
    /\ streak = 0
    /\ sinceOpened = 0
    /\ config = [c \in Callers |-> retryConfig]
    /\ failedDeps = {}

\* onSuccess as it would be if it closed the breaker and kept the count
onSuccessKeepsFailureCount(cb) ==
    IF cb.state = "HALF_OPEN" THEN [cb EXCEPT !.state = "CLOSED"] ELSE cb

\* onSuccess(): only a HALF_OPEN breaker is closed and has its count reset
onSuccess(cb) ==
    IF cb.state = "HALF_OPEN"
    THEN [cb EXCEPT !.state = "CLOSED", !.failureCount = 0]
    ELSE cb

\* onFailure as it would be if a refused call did not stamp lastFailureTime
onFailureStampsOnlyRealFailures(cb) ==
    LET n == cb.failureCount + 1 IN
    [state |-> IF n >= failureThreshold THEN "OPEN" ELSE cb.state,
     failureCount |-> n,
     sinceFailure |-> IF cb.state = "OPEN" THEN cb.sinceFailure ELSE 0]

\* onFailure(): count, stamp lastFailureTime, and open at the threshold
onFailure(cb) ==
    LET n == cb.failureCount + 1 IN
    [state |-> IF n >= failureThreshold THEN "OPEN" ELSE cb.state,
     failureCount |-> n,
     sinceFailure |-> 0]

\* the check at the top of the try block: the call is refused
CircuitRejects(cb) ==
    /\ cb.state = "OPEN"
    /\ cb.sinceFailure < recoveryTimeout

\* the same check: an OPEN breaker whose timeout has elapsed turns HALF_OPEN
AfterCheck(cb) ==
    IF cb.state = "OPEN" THEN [cb EXCEPT !.state = "HALF_OPEN"] ELSE cb

\* history: the age of the last move to OPEN, kept while OPEN
OpenedAge(cb, cb2) ==
    IF cb2.state /= "OPEN" THEN 0
    ELSE IF cb.state /= "OPEN" THEN 0 ELSE sinceOpened

\* history: fn's failures in a row, kept while CLOSED
Streak(cb2, n) == IF cb2.state = "CLOSED" THEN Min(n, failureThreshold) ELSE 0

\* the catch block: onFailure, then either rethrow (last attempt) or delay
Caught(c, k, cfg, cb, err) ==
    LET cb2 == onFailure(cb) IN
    /\ circuitBreaker' = cb2
    /\ sinceOpened' = OpenedAge(cb, cb2)
    /\ attempt' = [attempt EXCEPT ![c] = IF k = cfg.maxRetries THEN 0 ELSE k]
    /\ IF k = cfg.maxRetries
       THEN /\ pc' = [pc EXCEPT ![c] = "idle"]
            /\ lastError' = [lastError EXCEPT ![c] = err]
            /\ timer' = timer
       ELSE /\ pc' = [pc EXCEPT ![c] = "sleeping"]
            /\ lastError' = lastError
            /\ timer' = [timer EXCEPT ![c] = Delay(cfg, k)]

\* what the catch block leaves of the call's history
Recorded(c, k, cfg, o) ==
    obs' = [obs EXCEPT ![c] = IF k = cfg.maxRetries THEN NoObs
                              ELSE [o EXCEPT !.recorded = Min(@ + 1, 2)]]

\* one pass of the for loop up to its first await: the breaker check, then
\* either the refusal (caught at once) or the invocation of fn
Attempt(c, k, cfg, o) ==
    IF CircuitRejects(circuitBreaker)
    THEN /\ Caught(c, k, cfg, circuitBreaker, "open")
         /\ Recorded(c, k, cfg, o)
         /\ streak' = Streak(circuitBreaker', streak)
    ELSE /\ circuitBreaker' = AfterCheck(circuitBreaker)
         /\ sinceOpened' = OpenedAge(circuitBreaker, circuitBreaker')
         /\ attempt' = [attempt EXCEPT ![c] = k]
         /\ pc' = [pc EXCEPT ![c] = "inflight"]
         /\ obs' = [obs EXCEPT ![c] =
                       [o EXCEPT !.fnInvoked = TRUE,
                                 !.invoked = @ + 1,
                                 !.trial = (circuitBreaker'.state = "HALF_OPEN")]]
         /\ UNCHANGED <<timer, lastError, streak>>

\* executeWithRetry(fn, options) for dependency dep: entry, attempt 0
Call(c, cfg, dep) ==
    /\ pc[c] = "idle"
    /\ circuitBreaker.failureCount < MaxFailureCount
    /\ config' = [config EXCEPT ![c] = cfg]
    /\ Attempt(c, 0, cfg,
               [NoObs EXCEPT !.startedOpen = CircuitRejects(circuitBreaker),
                             !.dependency = dep])
    /\ UNCHANGED <<failedDeps, priceVars, swapVars, limiterVars, pageVars>>

\* executeWithRetry(fn) with the default retryConfig
ExecuteWithRetry(c) == Call(c, retryConfig, "fn")

\* fetchWithRetry(url, options, timeout)
FetchWithRetry(c) ==
    Call(c, [retryConfig EXCEPT !.maxRetries = 2, !.baseDelay = 2], "fetch")

\* executeSDKOperation(sdkOperation, operationName)
ExecuteSDKOperation(c) ==
    Call(c, [retryConfig EXCEPT !.maxRetries = 3, !.baseDelay = 3], "sdk")

\* executeTradingOperation(tradingOperation, operationType)
ExecuteTradingOperation(c) ==
    Call(c, [retryConfig EXCEPT !.maxRetries = 2, !.baseDelay = 5], "trading")

\* `await fn()` resolves: onSuccess, return result
FnResolves(c) ==
    /\ pc[c] = "inflight"
    /\ circuitBreaker' = onSuccess(circuitBreaker)
    /\ sinceOpened' = OpenedAge(circuitBreaker, circuitBreaker')
    /\ pc' = [pc EXCEPT ![c] = "idle"]
    /\ attempt' = [attempt EXCEPT ![c] = 0]
    /\ lastError' = [lastError EXCEPT ![c] = "none"]
    /\ obs' = [obs EXCEPT ![c] = NoObs]
    /\ streak' = 0
    /\ failedDeps' = IF circuitBreaker'.failureCount = 0 THEN {} ELSE failedDeps
    /\ UNCHANGED <<timer, config, priceVars, swapVars, limiterVars, pageVars>>

\* `await fn()` rejects: the catch block
FnRejects(c) ==
    /\ pc[c] = "inflight"
    /\ Caught(c, attempt[c], config[c], circuitBreaker, "fn")
    /\ Recorded(c, attempt[c], config[c], obs[c])
    /\ streak' = Streak(circuitBreaker', streak + 1)
    /\ failedDeps' = failedDeps \cup {obs[c].dependency}
    /\ UNCHANGED <<config, priceVars, swapVars, limiterVars, pageVars>>

\* `await this.delay(delay)` is over: next pass of the loop
RetryAfterDelay(c) ==
    /\ pc[c] = "sleeping"
    /\ timer[c] = 0
    /\ Attempt(c, attempt[c] + 1, config[c], obs[c])
    /\ UNCHANGED <<config, failedDeps, priceVars, swapVars, limiterVars, pageVars>>

\* resetCircuitBreaker as it would be if it closed the breaker and kept the
\* failure count
resetKeepsFailureCount(cb) ==
    [cb EXCEPT !.state = "CLOSED", !.sinceFailure = recoveryTimeout + AgeSlack]

\* resetCircuitBreaker(): state = 'CLOSED', failureCount = 0 and
\* lastFailureTime = 0, i.e. long ago
resetCircuitBreaker(cb) ==
    [state |-> "CLOSED", failureCount |-> 0,
     sinceFailure |-> recoveryTimeout + AgeSlack]

\* a call of resetCircuitBreaker while calls may be under way
ResetCircuitBreaker ==
    /\ circuitBreaker.failureCount > 0
    /\ circuitBreaker' = resetCircuitBreaker(circuitBreaker)
    /\ sinceOpened' = 0
    /\ streak' = 0
    /\ obs' = [c \in Callers |->
                 IF pc[c] = "idle" THEN obs[c] ELSE [obs[c] EXCEPT !.reset = TRUE]]
    /\ failedDeps' = {}
    /\ UNCHANGED <<pc, attempt, timer, lastError, config, priceVars, swapVars, limiterVars, pageVars>>

\* a delay timer that is due fires before the clock moves on
TimerDue == \E c \in Callers : pc[c] = "sleeping" /\ timer[c] = 0

\* one second passes for the breaker
TickBreaker ==
    /\ circuitBreaker' = [circuitBreaker EXCEPT
                            !.sinceFailure = Older(@, recoveryTimeout)]
    /\ sinceOpened' = IF circuitBreaker.state = "OPEN"
                      THEN Older(sinceOpened, recoveryTimeout) ELSE 0
    /\ timer' = [c \in Callers |->
                   IF pc[c] = "sleeping" THEN timer[c] - 1 ELSE timer[c]]
    /\ UNCHANGED <<pc, attempt, lastError, obs, streak, config, failedDeps>>

Tick ==
    /\ ~TimerDue
    /\ TickBreaker
    /\ UNCHANGED <<priceVars, swapVars, limiterVars, pageVars>>

---------------------------------------------------------------------------
(* PriceService: configuration (src/price-config.js) and token mappings    *)

Sources == {"coingecko", "coinmarketcap", "galachain"}

\* three of the eight tokenMappings entries: the native token every source
\* lists, a stablecoin, and a bridged token that only GalaChain prices
Tokens == {"GALA", "GUSDC", "ETIME"}

\* tokenMappings[token].coingecko / .coinmarketcap is not null
Mapped(t) == t \in {"GALA", "GUSDC"}

Requests == {"r1", "r2"}

rateLimitCoingecko == 50

rateLimitCoinmarketcap == 30

rateLimitGalachain == 100

rateLimit(s) ==
    CASE s = "coingecko" -> rateLimitCoingecko
      [] s = "coinmarketcap" -> rateLimitCoinmarketcap
      [] s = "galachain" -> rateLimitGalachain

cachePriceTtl == 30

\* stdTTL of the server's priceCache
priceCacheTtl == 30

\* price data must be less than this many seconds old for trading
FreshnessLimit == 30

maxVariancePercent == 10

fallbackToAverage == TRUE

preferExternalSources == TRUE

\* prices in units of 0.0001 USD: 1.00, 0.01 and 0.015
StablecoinPrice == 10000

TokenFallbackPrice == 100

GalaUsdFallbackPrice == 150

\* coinmarketcap is enabled only with an API key (CMC_API_KEY)
DefaultConfig ==
    [coingecko |-> TRUE, coinmarketcap |-> FALSE, galachain |-> TRUE]

ConfigWithKey ==
    [coingecko |-> TRUE, coinmarketcap |-> TRUE, galachain |-> TRUE]

---------------------------------------------------------------------------
(* Numbers: fractions <<numerator, denominator>> and the rounding of the   *)
(* arithmetic on them                                                      *)

RECURSIVE Gcd(_, _)
Gcd(a, b) == IF b = 0 THEN a ELSE Gcd(b, a % b)

Frac(n, d) == LET g == Gcd(n, d) IN <<n \div g, d \div g>>

FracLess(a, b) == a[1] * b[2] < b[1] * a[2]

MaxOver(f, S) == CHOOSE v \in {f[x] : x \in S} : \A x \in S : f[x] <= v

MinOver(f, S) == CHOOSE v \in {f[x] : x \in S} : \A x \in S : v <= f[x]

\* n / d rounded to an integer, halves to the even neighbour
RoundHalfEven(n, d) ==
    LET q == n \div d
        r == n % d
    IN IF 2 * r < d THEN q
       ELSE IF 2 * r > d THEN q + 1
       ELSE IF q % 2 = 0 THEN q ELSE q + 1

\* 2^Precision and 2^(Precision-1): a significand m has Half <= m < Top
Top == Pow(2, Precision)

Half == Pow(2, Precision - 1)

\* twice and half a fraction whose denominator is a power of two
Twice(x) == IF x[2] = 1 THEN <<2 * x[1], 1>> ELSE <<x[1], x[2] \div 2>>

Halved(x) == IF x[1] % 2 = 0 THEN <<x[1] \div 2, x[2]>> ELSE <<x[1], 2 * x[2]>>

\* n / d > 0 rounded to Precision significant bits, ties to even: the
\* fraction is scaled by powers of two until its integer part is a
\* significand, rounded there, and scaled back
RECURSIVE RoundTo(_, _)
RoundTo(n, d) ==
    IF n >= d * Top THEN Twice(RoundTo(n, 2 * d))
    ELSE IF n < d * Half THEN Halved(RoundTo(2 * n, d))
    ELSE <<RoundHalfEven(n, d), 1>>

\* the Number nearest to the fraction x >= 0; an integer below 2^Precision
\* is a Number
Round(x) ==
    IF x[2] = 1 /\ x[1] < Top THEN x ELSE RoundTo(x[1], x[2])

\* a + b, a - b (for a >= b), a * b and a / b on Numbers
Plus(a, b) == Round(Frac(a[1] * b[2] + b[1] * a[2], a[2] * b[2]))

Minus(a, b) == Round(Frac(a[1] * b[2] - b[1] * a[2], a[2] * b[2]))

Times(a, b) == Round(Frac(a[1] * b[1], a[2] * b[2]))

Divide(a, b) == Round(Frac(a[1] * b[2], a[2] * b[1]))

\* the Number a price of the model stands for
Number(p) == Round(<<p, 1>>)

---------------------------------------------------------------------------
(* PriceService: limiter                                                   *)

\* the least whole number of seconds that is at least minInterval
RequestGap(s) == CHOOSE a \in 0..60 :
    /\ a * 1000 * rateLimit(s) >= 60 * 1000
    /\ \A b \in 0..(a - 1) : b * 1000 * rateLimit(s) < 60 * 1000

\* canMakeRequest(source): timeSinceLastRequest >= (60 * 1000) / rateLimit
canMakeRequest(s) ==
    priceSources[s].sinceRequest * 1000 * rateLimit(s) >= 60 * 1000

\* updateLastRequest(source)
updateLastRequest(s) ==
    [priceSources EXCEPT ![s].sinceRequest = 0]

---------------------------------------------------------------------------
(* PriceService: source adapters                                           *)

NoPrices == [t \in {} |-> 0]

NoEntry == [present |-> FALSE]

\* what an adapter resolves to; `genuine` (history) is the set of tokens whose
\* price in `prices` is one the upstream actually reported
AdapterResult(s, status, prices, genuine) ==
    [source |-> s, status |-> status, prices |-> prices, genuine |-> genuine]

NotCalled(s) == AdapterResult(s, "none", NoPrices, {})

InFlight(s) == AdapterResult(s, "pending", NoPrices, {})

\* the catch block of an adapter: { source, prices: {}, error }
AdapterError(s) == AdapterResult(s, "error", NoPrices, {})

\* the promise of an adapter whose exception left the adapter
Rejected(s) == AdapterResult(s, "rejected", NoPrices, {})

\* how the try block of an adapter ends: with a throw or with a return value
Thrown(error) == [thrown |-> TRUE, error |-> error]

Returned(value) == [thrown |-> FALSE, value |-> value]

\* the catch block as it would be if it passed on what it cannot name
CatchRethrowsTypeError(s, outcome) ==
    IF ~outcome.thrown THEN outcome.value
    ELSE IF outcome.error = "TypeError" THEN Rejected(s)
    ELSE AdapterError(s)

\* try { ... } catch (error) { return { source, prices: {}, error } }: the
\* whole body of each adapter is inside the try block
Catch(s, outcome) ==
    IF outcome.thrown THEN AdapterError(s) ELSE outcome.value

NoAnswer == [sent |-> FALSE]

\* no pass has computed a price for the token yet
Never == -1

\* the prices a caller gets back; `age` (history) is how long ago the pass
\* that computed them finished
Answer(by, prices, age) ==
    [sent |-> TRUE, by |-> by, prices |-> prices, age |-> age]

IdleRequest == [phase |-> "idle", via |-> "none",
                results |-> [s \in Sources |-> NotCalled(s)]]

\* an adapter up to its first await: it throws '... disabled' or
\* 'Rate limited', or sends the outbound request
BeforeFetch(s) ==
    IF ~priceSources[s].enabled THEN Thrown("disabled")
    ELSE IF ~canMakeRequest(s) THEN Thrown("Rate limited")
    ELSE Returned(InFlight(s))

\* getAllPrices pushes a fetch for every enabled source
Dispatch(s) ==
    IF ~priceSources[s].enabled THEN NotCalled(s)
    ELSE Catch(s, BeforeFetch(s))

\* fetchCoinGeckoPrices / fetchCoinMarketCapPrices after the response.  `body`
\* is what came back: body.ok says that response.json() resolved, body.error
\* names what is thrown ("none" when nothing is), body.data is the parsed
\* token -> usd price table
AfterFetch(s, body) ==
    IF body.error /= "none" THEN Thrown(body.error)
    ELSE LET have == {t \in Tokens : Mapped(t) /\ t \in DOMAIN body.data} IN
         Returned(AdapterResult(s, "ok", [t \in have |-> body.data[t]], have))

ExternalResult(s, body) == Catch(s, AfterFetch(s, body))

\* fetchGalaChainPrices, the per-token price: galaQ is the GALA->GUSDC quote,
\* etimeQ the ETIME->GALA quote, usdQ the quote of getGalaUsdPrice; 0 stands
\* for a quote that threw
GalaUsdPrice(usdQ) == IF usdQ = 0 THEN GalaUsdFallbackPrice ELSE usdQ

GalaChainPrice(t, galaQ, etimeQ, usdQ) ==
    CASE t = "GUSDC" -> StablecoinPrice
      [] t = "GALA" -> IF galaQ = 0 THEN TokenFallbackPrice ELSE galaQ
      [] t = "ETIME" -> IF etimeQ = 0 THEN TokenFallbackPrice
                        ELSE etimeQ * GalaUsdPrice(usdQ)

GalaChainResult(galaQ, etimeQ, usdQ) ==
    AdapterResult("galachain", "ok",
        [t \in Tokens |-> GalaChainPrice(t, galaQ, etimeQ, usdQ)],
        {"GUSDC"} \cup (IF galaQ = 0 THEN {} ELSE {"GALA"})
                  \cup (IF etimeQ = 0 \/ usdQ = 0 THEN {} ELSE {"ETIME"}))

---------------------------------------------------------------------------
(* PriceService: comparePrices / selectBestPrice                           *)

\* the priority list as it would be with the on-chain source first
sourcePriorityGalachainFirst == <<"galachain", "coinmarketcap", "coingecko">>

sourcePriority ==
    IF preferExternalSources
    THEN <<"coinmarketcap", "coingecko", "galachain">>
    ELSE <<"galachain", "coinmarketcap", "coingecko">>

\* selectBestPrice as it would be without the averaging branch
selectBestPriceByPriority(prices, average, variance) ==
    LET usable == {i \in 1..Len(sourcePriority) :
                     /\ sourcePriority[i] \in DOMAIN prices
                     /\ priceSources[sourcePriority[i]].enabled}
    IN IF usable = {}
       THEN [source |-> "average", price |-> average]
       ELSE LET first == CHOOSE i \in usable : \A j \in usable : i <= j
            IN [source |-> sourcePriority[first],
                price |-> Frac(prices[sourcePriority[first]], 1)]

\* selectBestPrice(prices, average, variance)
selectBestPrice(prices, average, variance) ==
    IF FracLess(variance, <<maxVariancePercent, 1>>) /\ fallbackToAverage
    THEN [source |-> "average", price |-> average]
    ELSE LET usable == {i \in 1..Len(sourcePriority) :
                          /\ sourcePriority[i] \in DOMAIN prices
                          /\ priceSources[sourcePriority[i]].enabled}
         IN IF usable = {}
            THEN [source |-> "average", price |-> average]
            ELSE LET first == CHOOSE i \in usable : \A j \in usable : i <= j
                 IN [source |-> sourcePriority[first],
                     price |-> Frac(prices[sourcePriority[first]], 1)]

\* the sources whose result has a positive price for the token
Contributing(priceData, t) ==
    {s \in DOMAIN priceData :
        t \in DOMAIN priceData[s].prices /\ priceData[s].prices[t] > 0}

\* the order of priceData: the order in which getAllPrices pushes the
\* promises, which is the order of Object.values(prices)
SourceOrder == <<"coingecko", "coinmarketcap", "galachain">>

\* values.reduce((sum, price) => sum + price, 0) over the first k sources
RECURSIVE Reduce(_, _)
Reduce(prices, k) ==
    IF k = 0 THEN <<0, 1>>
    ELSE IF SourceOrder[k] \in DOMAIN prices
    THEN Plus(Reduce(prices, k - 1), Number(prices[SourceOrder[k]]))
    ELSE Reduce(prices, k - 1)

\* values.reduce(...) / values.length
Average(prices) ==
    Divide(Reduce(prices, Len(SourceOrder)),
           <<Cardinality(DOMAIN prices), 1>>)

\* ((maxPrice - minPrice) / avgPrice) * 100
Variance(maxPrice, minPrice, avgPrice) ==
    Times(Divide(Minus(Number(maxPrice), Number(minPrice)), avgPrice),
          <<100, 1>>)

\* comparePrices(priceData): priceData maps each called source to its result
comparePrices(priceData) ==
    [t \in {u \in Tokens : Contributing(priceData, u) /= {}} |->
        LET from == Contributing(priceData, t)
            prices == [s \in from |-> priceData[s].prices[t]]
            maxPrice == MaxOver(prices, from)
            minPrice == MinOver(prices, from)
            average == Average(prices)
            variance == Variance(maxPrice, minPrice, average)
        IN [prices |-> prices, average |-> average, max |-> maxPrice,
            min |-> minPrice, variance |-> variance,
            recommended |-> selectBestPrice(prices, average, variance)]]

---------------------------------------------------------------------------
(* PriceService: getAllPrices                                              *)

\* get as it would be if an entry ran out one second early
CacheHitExpiresEarly(entry, ttl) == entry.present /\ entry.sinceSet + 1 < ttl

\* node-cache get: an entry is returned until its ttl has run out
CacheHit(entry, ttl) == entry.present /\ entry.sinceSet < ttl

\* node-cache set with the cache's stdTTL
CacheSet(value) == [present |-> TRUE, sinceSet |-> 0, value |-> value]

\* priceCache.set('token_prices', prices); `age` (history) is how long ago
\* the pass that computed the prices finished
PriceCacheSet(prices, age) ==
    [present |-> TRUE, sinceSet |-> 0, value |-> prices, sinceComputed |-> age]

\* the entry one second later; an entry whose ttl has run out is dropped
\* (node-cache drops it on the next get or check)
CacheOlder(entry, ttl) ==
    IF ~entry.present THEN entry
    ELSE IF entry.sinceSet + 1 >= ttl THEN NoEntry
    ELSE [entry EXCEPT !.sinceSet = @ + 1]

\* the result object as it would be with an entry for every token
PassResultEveryToken(results) ==
    LET called == {s \in Sources : results[s].status /= "none"}
        priceData == [s \in called |-> results[s]]
        comparison == comparePrices(priceData)
    IN [sources |-> priceData,
        comparison |-> comparison,
        finalPrices |-> [t \in Tokens |->
                           IF t \in DOMAIN comparison
                           THEN comparison[t].recommended.price ELSE <<0, 1>>]]

\* the result object built from the settled fetches
PassResult(results) ==
    LET called == {s \in Sources : results[s].status /= "none"}
        priceData == [s \in called |-> results[s]]
        comparison == comparePrices(priceData)
    IN [sources |-> priceData,
        comparison |-> comparison,
        finalPrices |-> [t \in DOMAIN comparison |-> comparison[t].recommended.price]]

\* Promise.all has resolved: compare, build the result, cache it, return it
\* (to getOptimizedPrices, which puts the final prices into priceCache)
FinishGetAllPrices(r, via, results) ==
    /\ cache' = CacheSet(PassResult(results))
    /\ priceCache' = IF via = "getOptimizedPrices"
                     THEN PriceCacheSet(cache'.value.finalPrices, 0)
                     ELSE priceCache
    /\ served' = Answer(via, cache'.value.finalPrices, 0)
    /\ sincePriced' = [t \in Tokens |->
                         IF t \in DOMAIN cache'.value.finalPrices
                         THEN 0 ELSE sincePriced[t]]
    /\ req' = [req EXCEPT ![r] = IdleRequest]

\* what a caller gets when getAllPrices rejects
Rejection == [sent |-> FALSE, error |-> "rejected"]

\* the await as it would be with Promise.race: the call goes on at the first
\* fetch that settles
AwaitPromiseRace(r, via, results) ==
    IF /\ \E s \in Sources : results[s].status = "pending"
       /\ \A s \in Sources : results[s].status \in {"none", "pending"}
    THEN /\ req' = [req EXCEPT ![r] =
                      [phase |-> "fetching", via |-> via, results |-> results]]
         /\ served' = NoAnswer
         /\ UNCHANGED <<cache, priceCache, sincePriced>>
    ELSE FinishGetAllPrices(r, via, results)

\* await Promise.all(promises): the call waits while a fetch is pending and
\* goes on in the same turn of the event loop once the last one has settled;
\* a promise that rejects makes Promise.all, and so getAllPrices, reject
AwaitPromiseAll(r, via, results) ==
    IF \E s \in Sources : results[s].status = "rejected"
    THEN /\ req' = [req EXCEPT ![r] = IdleRequest]
         /\ served' = Rejection
         /\ UNCHANGED <<cache, priceCache, sincePriced>>
    ELSE IF \E s \in Sources : results[s].status = "pending"
    THEN /\ req' = [req EXCEPT ![r] =
                      [phase |-> "fetching", via |-> via, results |-> results]]
         /\ served' = NoAnswer
         /\ UNCHANGED <<cache, priceCache, sincePriced>>
    ELSE FinishGetAllPrices(r, via, results)

\* the fetches getAllPrices starts: one per enabled source
StartPass(r, via) ==
    /\ sinceSent' = [s \in Sources |->
                       IF Dispatch(s).status = "pending" THEN 0 ELSE sinceSent[s]]
    /\ sentCount' = [s \in Sources |->
                       IF Dispatch(s).status = "pending"
                       THEN Min(sentCount[s] + 1, MaxSent) ELSE sentCount[s]]
    /\ AwaitPromiseAll(r, via, [s \in Sources |-> Dispatch(s)])

\* getAllPrices(gswap): a cached result is returned at once; otherwise every
\* enabled source's fetch is started
GetAllPrices(r) ==
    /\ req[r].phase = "idle"
    /\ IF CacheHit(cache, cachePriceTtl)
       THEN /\ served' = Answer("getAllPrices", cache.value.finalPrices,
                                cache.sinceSet)
            /\ UNCHANGED <<req, sinceSent, sentCount, cache, priceCache, sincePriced>>
       ELSE StartPass(r, "getAllPrices")
    /\ UNCHANGED <<priceSources, breakerVars, swapVars, limiterVars, pageVars>>

\* getOptimizedPrices(): priceCache first, then priceService.getAllPrices,
\* whose result (cached or not) is put into priceCache
GetOptimizedPrices(r) ==
    /\ req[r].phase = "idle"
    /\ IF CacheHit(priceCache, priceCacheTtl)
       THEN /\ served' = Answer("getOptimizedPrices", priceCache.value,
                                priceCache.sinceComputed)
            /\ UNCHANGED <<req, sinceSent, sentCount, cache, priceCache, sincePriced>>
       ELSE IF CacheHit(cache, cachePriceTtl)
       THEN /\ priceCache' = PriceCacheSet(cache.value.finalPrices, cache.sinceSet)
            /\ served' = Answer("getOptimizedPrices", cache.value.finalPrices,
                                cache.sinceSet)
            /\ UNCHANGED <<req, sinceSent, sentCount, cache, sincePriced>>
       ELSE StartPass(r, "getOptimizedPrices")
    /\ UNCHANGED <<priceSources, breakerVars, swapVars, limiterVars, pageVars>>

\* the response of an off-chain source arrives
ExternalResponds(r, s, body) ==
    /\ req[r].phase = "fetching"
    /\ req[r].results[s].status = "pending"
    /\ priceSources' = IF body.ok THEN updateLastRequest(s) ELSE priceSources
    /\ AwaitPromiseAll(r, req[r].via,
           [req[r].results EXCEPT ![s] = ExternalResult(s, body)])
    /\ UNCHANGED <<sinceSent, sentCount, breakerVars, swapVars, limiterVars, pageVars>>

CoinGeckoResponds(r, body) == ExternalResponds(r, "coingecko", body)

CoinMarketCapResponds(r, body) == ExternalResponds(r, "coinmarketcap", body)

\* all GalaChain quotes of the pass have settled
GalaChainResponds(r, galaQ, etimeQ, usdQ) ==
    /\ req[r].phase = "fetching"
    /\ req[r].results["galachain"].status = "pending"
    /\ priceSources' = updateLastRequest("galachain")
    /\ AwaitPromiseAll(r, req[r].via,
           [req[r].results EXCEPT !["galachain"] =
                GalaChainResult(galaQ, etimeQ, usdQ)])
    /\ UNCHANGED <<sinceSent, sentCount, breakerVars, swapVars, limiterVars, pageVars>>

\* one second passes for the price service
TickPrices ==
    /\ priceSources' = [s \in Sources |->
          [priceSources[s] EXCEPT !.sinceRequest = Older(@, RequestGap(s))]]
    /\ sinceSent' = [s \in Sources |-> Older(sinceSent[s], RequestGap(s))]
    /\ UNCHANGED sentCount
    /\ cache' = CacheOlder(cache, cachePriceTtl)
    /\ priceCache' = LET e == CacheOlder(priceCache, priceCacheTtl) IN
                     IF e.present THEN [e EXCEPT !.sinceComputed = @ + 1] ELSE e
    /\ served' = NoAnswer
    /\ sincePriced' = [t \in Tokens |->
                         IF sincePriced[t] = Never THEN Never
                         ELSE Older(sincePriced[t], FreshnessLimit)]
    /\ UNCHANGED <<req, breakerVars, swapVars, limiterVars, pageVars>>

InitPrices(configs) ==
    /\ \E enabled \in configs :
          priceSources = [s \in Sources |->
              [enabled |-> enabled[s],
               sinceRequest |-> RequestGap(s) + AgeSlack]]
    /\ cache = NoEntry
    /\ req = [r \in Requests |-> IdleRequest]
    /\ sinceSent = [s \in Sources |-> RequestGap(s) + AgeSlack]
    /\ sentCount = [s \in Sources |-> 0]
    /\ priceCache = NoEntry
    /\ served = NoAnswer
    /\ sincePriced = [t \in Tokens |-> Never]

---------------------------------------------------------------------------
(* POST /api/swap (real-trading-server-optimized.js) *)

Swappers == {"s1"}

\* a missing or empty request field or global
None == "none"

Wallets == {"wA", "wB"}
Keys == {"kA", "kB"}

\* the token pairs requests ask to swap
SwapPairs == {<<"GALA", "GUSDC">>, <<"GUSDC", "ETIME">>}

NoResponse == [status |-> 0]

\* res.status(code).json({success, source | error})
Response(code, success, what) ==
    [status |-> code, success |-> success, what |-> what]

NoSubmit == [signer |-> None, walletAddress |-> None]

IdleSwap ==
    [phase |-> "idle", tokenIn |-> None, tokenOut |-> None,
     submitted |-> NoSubmit, response |-> NoResponse]

\* gswapWithSigner = null
NoGSwap == [signer |-> None, walletAddress |-> None]

InitSwap ==
    /\ walletAddress = None
    /\ privateKey = None
    /\ gswapWithSigner = NoGSwap
    /\ swap = [s \in Swappers |-> IdleSwap]

\* new GSwap({signer: new PrivateKeySigner(privateKey), walletAddress})
NewGSwap(key, wallet) == [signer |-> key, walletAddress |-> wallet]

\* the handler answers and ends
Respond(s, response) ==
    swap' = [swap EXCEPT ![s] = [IdleSwap EXCEPT !.response = response]]

\* the handler up to its first await: the wallet and key checks, the
\* simulated branch, the update of the globals and initializeSDKWithSigner
SwapRequest(s, pair, reqWalletAddress, reqPrivateKey) ==
    LET currentWalletAddress ==
            IF reqWalletAddress /= None THEN reqWalletAddress ELSE walletAddress
        currentPrivateKey ==
            IF reqPrivateKey /= None THEN reqPrivateKey ELSE privateKey
        started(phase) ==
            [phase |-> phase, tokenIn |-> pair[1], tokenOut |-> pair[2],
             submitted |-> NoSubmit, response |-> NoResponse]
    IN  /\ swap[s].phase = "idle"
        /\ IF currentWalletAddress = None
           THEN /\ Respond(s, Response(400, FALSE, "Wallet address required"))
                /\ UNCHANGED <<walletAddress, privateKey, gswapWithSigner>>
           ELSE IF currentPrivateKey = None
           THEN /\ swap' = [swap EXCEPT ![s] = started("simulatedQuote")]
                /\ UNCHANGED <<walletAddress, privateKey, gswapWithSigner>>
           ELSE /\ walletAddress' = currentWalletAddress
                /\ privateKey' = currentPrivateKey
                /\ gswapWithSigner' =
                       IF gswapWithSigner = NoGSwap
                       THEN NewGSwap(currentPrivateKey, currentWalletAddress)
                       ELSE gswapWithSigner
                /\ swap' = [swap EXCEPT ![s] = started("getUserAssets")]
        /\ UNCHANGED <<breakerVars, priceVars, limiterVars, pageVars>>

\* gswap.quoting.quoteExactInput settles in the branch without a private key
SimulatedQuoteReturns(s, ok) ==
    /\ swap[s].phase = "simulatedQuote"
    /\ Respond(s, IF ok THEN Response(200, TRUE, "simulated-competition-mode")
                  ELSE Response(500, FALSE, "error"))
    /\ UNCHANGED <<walletAddress, privateKey, gswapWithSigner>>
    /\ UNCHANGED <<breakerVars, priceVars, limiterVars, pageVars>>

\* gswapWithSigner.assets.getUserAssets settles: galaTokenBalance is the
\* GALA quantity found (0 when none), ok = FALSE when the call throws
GetUserAssetsReturns(s, ok, galaTokenBalance) ==
    /\ swap[s].phase = "getUserAssets"
    /\ IF ~ok THEN Respond(s, Response(500, FALSE, "error"))
       ELSE IF galaTokenBalance < 1
       THEN Respond(s, Response(400, FALSE, "Insufficient GALA"))
       ELSE swap' = [swap EXCEPT ![s].phase = "quote"]
    /\ UNCHANGED <<walletAddress, privateKey, gswapWithSigner>>
    /\ UNCHANGED <<breakerVars, priceVars, limiterVars, pageVars>>

\* gswapWithSigner.quoting.quoteExactInput settles; on success the handler
\* calls gswapWithSigner.swaps.swap(..., walletAddress)
QuoteReturns(s, ok) ==
    /\ swap[s].phase = "quote"
    /\ IF ~ok THEN Respond(s, Response(500, FALSE, "error"))
       ELSE swap' = [swap EXCEPT
                       ![s].phase = "swaps.swap",
                       ![s].submitted = [signer |-> gswapWithSigner.signer,
                                         walletAddress |-> walletAddress]]
    /\ UNCHANGED <<walletAddress, privateKey, gswapWithSigner>>
    /\ UNCHANGED <<breakerVars, priceVars, limiterVars, pageVars>>

\* swaps.swap settles
SwapReturns(s, ok) ==
    /\ swap[s].phase = "swaps.swap"
    /\ Respond(s, IF ok THEN Response(200, TRUE, "real-sdk-optimized")
                  ELSE Response(500, FALSE, "error"))
    /\ UNCHANGED <<walletAddress, privateKey, gswapWithSigner>>
    /\ UNCHANGED <<breakerVars, priceVars, limiterVars, pageVars>>

---------------------------------------------------------------------------
(* checkRateLimit (real-trading-server-optimized.js, server-optimizations.js) *)

\* client ids (req.ip)
Clients == {"k1", "k2"}

InitRateLimiter ==
    /\ rateLimiter = [k \in Clients |-> <<>>]
    /\ allowed = [k \in Clients |-> "none"]
    /\ admitted = [k \in Clients |-> <<>>]

\* requests.filter(time => time > windowStart)
RecentRequests(requests) ==
    SelectSeq(requests, LAMBDA age : age < RATE_LIMIT_WINDOW)

\* the limit test as it would be with > for >=
RateLimitedAboveQuota(recentRequests) ==
    Len(recentRequests) > MAX_REQUESTS_PER_WINDOW

\* recentRequests.length >= MAX_REQUESTS_PER_WINDOW
RateLimited(recentRequests) ==
    Len(recentRequests) >= MAX_REQUESTS_PER_WINDOW

\* checkRateLimit(clientId); a client without an entry gets the empty list
checkRateLimit(clientId) ==
    LET recentRequests == RecentRequests(rateLimiter[clientId]) IN
    /\ IF RateLimited(recentRequests)
       THEN /\ allowed' = [allowed EXCEPT ![clientId] = "denied"]
            /\ UNCHANGED <<rateLimiter, admitted>>
       ELSE /\ rateLimiter' = [rateLimiter EXCEPT
                                 ![clientId] = Append(recentRequests, 0)]
            /\ allowed' = [allowed EXCEPT ![clientId] = "admitted"]
            /\ admitted' = [admitted EXCEPT ![clientId] = Append(@, 0)]
    /\ UNCHANGED <<breakerVars, priceVars, swapVars, pageVars>>

\* every age of a list one second later
OlderAll(ages) == [i \in DOMAIN ages |-> Older(ages[i], RATE_LIMIT_WINDOW)]

\* one second passes for the rate limiter
TickRateLimiter ==
    /\ rateLimiter' = [k \in Clients |-> OlderAll(rateLimiter[k])]
    /\ admitted' = [k \in Clients |-> RecentRequests(OlderAll(admitted[k]))]
    /\ UNCHANGED <<allowed, breakerVars, priceVars, swapVars, pageVars>>

---------------------------------------------------------------------------
(* APICache (src/CONTRIBUTING.md).  Its clock is Date.now() itself, in clock *)
(* readings (milliseconds): two calls made at the same reading see the same  *)
(* Date.now().                                                               *)

\* values of the ttl argument of set, in clock readings
Ttls == {1, defaultTTL}

\* response bodies; all of them truthy
Data == {"v1", "v2"}

\* JavaScript null
Null == "null"

\* options = {}
NoOptions == [method |-> None, body |-> None]

\* the (url, options) pairs the page asks for
ApiCalls ==
    {[url |-> "u1", options |-> NoOptions],
     [url |-> "u1", options |-> [method |-> "GET", body |-> None]],
     [url |-> "u1", options |-> [method |-> "POST", body |-> "b"]],
     [url |-> "u2", options |-> NoOptions]}

\* the pair the page asks for through fetch
FetchCalls == {[url |-> "u2", options |-> NoOptions]}

\* JSON.stringify of a string
Stringify(body) == "\"" \o body \o "\""

\* generateKey(url, options): `${method}:${url}:${body}`
generateKey(url, options) ==
    LET method == IF options.method = None THEN "GET" ELSE options.method
        body == IF options.body = None THEN "" ELSE Stringify(options.body)
    IN method \o ":" \o url \o ":" \o body

KeyOf(call) == generateKey(call.url, call.options)

\* Map.get: the index of the key's entry, 0 when there is none
MapIndex(entries, key) ==
    IF \E i \in DOMAIN entries : entries[i].key = key
    THEN CHOOSE i \in DOMAIN entries : entries[i].key = key
    ELSE 0

\* Map.delete
MapDelete(entries, key) == SelectSeq(entries, LAMBDA e : e.key /= key)

\* Map.set: a key that is present keeps its place in the iteration order
MapSet(entries, entry) ==
    LET i == MapIndex(entries, entry.key) IN
    IF i = 0 THEN Append(entries, entry) ELSE [entries EXCEPT ![i] = entry]

\* the entry set() stores; the url and options it also stores are never read;
\* `ttl` (history) is the ttl the entry was set with
CacheEntry(key, data, ttl, now) ==
    [key |-> key, data |-> data, expires |-> now + ttl, created |-> now,
     ttl |-> ttl]

\* the test of get as it would be with >= for >
FreshAtExpiry(entry, now) == entry.expires >= now

\* cached.expires > Date.now()
Fresh(entry, now) == entry.expires > now

\* evictOldest(): the loop starts from oldestTime = Date.now() and takes an
\* entry only if entry.created < oldestTime, so it finds the first entry with
\* the least creation time, and none if no entry is older than now
evictOldest(entries, now) ==
    LET older == {i \in DOMAIN entries : entries[i].created < now} IN
    IF older = {} THEN entries
    ELSE LET oldest == CHOOSE i \in older :
                 \A j \in older :
                     \/ entries[i].created < entries[j].created
                     \/ entries[i].created = entries[j].created /\ i <= j
         IN MapDelete(entries, entries[oldest].key)

\* the Map after set(url, options, data, ttl)
AfterSet(entries, now, key, data, ttl) ==
    MapSet(IF Len(entries) >= maxCacheSize
           THEN evictOldest(entries, now) ELSE entries,
           CacheEntry(key, data, ttl, now))

\* the Map after get(url, options): an expired entry is deleted
AfterGet(entries, now, key) ==
    LET i == MapIndex(entries, key) IN
    IF i /= 0 /\ ~Fresh(entries[i], now) THEN MapDelete(entries, key)
    ELSE entries

\* what get(url, options) returns
GetReturns(entries, now, key) ==
    LET i == MapIndex(entries, key) IN
    IF i /= 0 /\ Fresh(entries[i], now) THEN entries[i].data ELSE Null

NoReturn == [op |-> "none"]

\* the value a call returned; `expired` (history) says that the call found
\* an entry whose time had run out
Return(op, value, expired) ==
    [op |-> op, value |-> value, expired |-> expired]

\* what a set call was given to store
Stored(key, data) == [op |-> "set", key |-> key, value |-> data]

\* get found an entry and it was not fresh
FoundExpired(entries, now, key) ==
    LET i == MapIndex(entries, key) IN i /= 0 /\ ~Fresh(entries[i], now)

InitApiCache ==
    /\ apiCache = <<>>
    /\ apiNow = 0
    /\ apiStats = [size |-> 0]
    /\ apiReturned = NoReturn
    /\ apiFetches = {}

\* set(url, options, data, ttl)
ApiSet(call, data, ttl) ==
    /\ apiCache' = AfterSet(apiCache, apiNow, KeyOf(call), data, ttl)
    /\ apiStats' = [size |-> Len(apiCache')]
    /\ apiReturned' = Stored(KeyOf(call), data)
    /\ UNCHANGED <<apiNow, apiFetches>>
    /\ UNCHANGED <<breakerVars, priceVars, swapVars, limiterVars, timerManager, domBatcher, storageVars>>

\* get(url, options); stats.size is left as it is
ApiGet(call) ==
    /\ apiCache' = AfterGet(apiCache, apiNow, KeyOf(call))
    /\ apiReturned' = Return("get",
                             GetReturns(apiCache, apiNow, KeyOf(call)),
                             FoundExpired(apiCache, apiNow, KeyOf(call)))
    /\ UNCHANGED <<apiNow, apiStats, apiFetches>>
    /\ UNCHANGED <<breakerVars, priceVars, swapVars, limiterVars, timerManager, domBatcher, storageVars>>

\* delete(url, options)
ApiDelete(call) ==
    /\ apiCache' = MapDelete(apiCache, KeyOf(call))
    /\ apiStats' = IF MapIndex(apiCache, KeyOf(call)) /= 0
                   THEN [size |-> Len(apiCache')] ELSE apiStats
    /\ apiReturned' = NoReturn
    /\ UNCHANGED <<apiNow, apiFetches>>
    /\ UNCHANGED <<breakerVars, priceVars, swapVars, limiterVars, timerManager, domBatcher, storageVars>>

\* clear()
ApiClear ==
    /\ apiCache' = <<>>
    /\ apiStats' = [size |-> 0]
    /\ apiReturned' = NoReturn
    /\ UNCHANGED <<apiNow, apiFetches>>
    /\ UNCHANGED <<breakerVars, priceVars, swapVars, limiterVars, timerManager, domBatcher, storageVars>>

\* cleanup(), called by the page or by the cleanup interval: entries with
\* expires < now go
ApiCleanup ==
    /\ apiCache' = SelectSeq(apiCache, LAMBDA e : ~(e.expires < apiNow))
    /\ apiStats' = IF Len(apiCache') < Len(apiCache)
                   THEN [size |-> Len(apiCache')] ELSE apiStats
    /\ apiReturned' = NoReturn
    /\ UNCHANGED <<apiNow, apiFetches>>
    /\ UNCHANGED <<breakerVars, priceVars, swapVars, limiterVars, timerManager, domBatcher, storageVars>>

\* fetch(url, options) up to its await: the cached body, or the request
ApiFetch(call) ==
    LET cached == GetReturns(apiCache, apiNow, KeyOf(call)) IN
    /\ apiCache' = AfterGet(apiCache, apiNow, KeyOf(call))
    /\ IF cached /= Null
       THEN /\ apiReturned' = Return("fetch", cached, FALSE)
            /\ UNCHANGED apiFetches
       ELSE /\ Cardinality(apiFetches) < MaxFetches
            /\ apiFetches' = apiFetches \cup {[call |-> call, ttl |-> defaultTTL]}
            /\ apiReturned' = NoReturn
    /\ UNCHANGED <<apiNow, apiStats>>
    /\ UNCHANGED <<breakerVars, priceVars, swapVars, limiterVars, timerManager, domBatcher, storageVars>>

\* the request of a fetch settles: an OK response is parsed and cached, any
\* other outcome (a non-OK response, a thrown error) is handed on
ApiFetchSettles(f, outcome, data) ==
    /\ f \in apiFetches
    /\ apiFetches' = apiFetches \ {f}
    /\ IF outcome = "ok"
       THEN /\ apiCache' = AfterSet(apiCache, apiNow, KeyOf(f.call), data, f.ttl)
            /\ apiStats' = [size |-> Len(apiCache')]
            /\ apiReturned' = Return("fetch", data, FALSE)
       ELSE /\ apiReturned' = Return("fetch", outcome, FALSE)
            /\ UNCHANGED <<apiCache, apiStats>>
    /\ UNCHANGED apiNow
    /\ UNCHANGED <<breakerVars, priceVars, swapVars, limiterVars, timerManager, domBatcher, storageVars>>

\* Date.now() moves to the next reading
TickApiCache ==
    /\ apiNow < MaxNow
    /\ apiNow' = apiNow + 1
    /\ apiReturned' = NoReturn
    /\ UNCHANGED <<apiCache, apiStats, apiFetches>>
    /\ UNCHANGED <<breakerVars, priceVars, swapVars, limiterVars, timerManager, domBatcher, storageVars>>

---------------------------------------------------------------------------
(* what the upstreams may answer *)

\* the answers of an off-chain source.  fetch rejects (network failure):
FailedBody == [ok |-> FALSE, error |-> "network", data |-> NoPrices]

\* the response has a non-OK status
StatusBody == [ok |-> FALSE, error |-> "status", data |-> NoPrices]

\* response.json() rejects: the body is not JSON
UnparsableBody == [ok |-> FALSE, error |-> "SyntaxError", data |-> NoPrices]

\* the body is the JSON value null: reading data[id] (data.data for
\* CoinMarketCap) throws a TypeError after updateLastRequest
NullBody == [ok |-> TRUE, error |-> "TypeError", data |-> NoPrices]

\* the body is an object with no entry for any token
EmptyBody == [ok |-> TRUE, error |-> "none", data |-> NoPrices]

\* a body with a price for GALA and for the stablecoin
Body(gala) ==
    [ok |-> TRUE, error |-> "none",
     data |-> [GALA |-> gala, GUSDC |-> StablecoinPrice]]

QuotedBodies ==
    {FailedBody, StatusBody, UnparsableBody, NullBody, EmptyBody,
     Body(0), Body(180), Body(190)}

PlainBodies == {FailedBody, Body(190)}

\* every failure, a body whose GALA entry has no usd price, a plain body
OverlapBodies ==
    {FailedBody, StatusBody, UnparsableBody, NullBody, Body(0), Body(190)}

\* GalaChain quotes; 0 is a quote that threw
GalaQuotes == {0, 180, 200}

\* the GALA quotes of the server specification
ServerQuotes == {0, 200}

EtimeQuotes == {0, 2}

\* GALA balances getUserAssets may report
GalaBalances == {0, 1}

---------------------------------------------------------------------------
(* TimerManager (src/timer-manager.js) and the browser's timers            *)

TimerIds == {"t1", "t2"}

\* what the callback of a timeout does: it returns, or it calls
\* timerManager.setTimeout under its own id (a timeout that re-arms itself)
Callbacks == {"plain", "rearm"}

\* no entry in a Map
NoTimer == 0

\* a native timer the browser holds
NativeTimer(handle, id, callback, repeats) ==
    [handle |-> handle, id |-> id, callback |-> callback, repeats |-> repeats]

InitTimers ==
    timerManager =
        [timeouts |-> [id \in TimerIds |-> NoTimer],
         intervals |-> [id \in TimerIds |-> NoTimer],
         isDestroyed |-> FALSE, activeTimers |-> 0,
         pending |-> {}, next |-> 1, ran |-> {}, cancelled |-> {}]

\* this.timeouts.size + this.intervals.size
Size(map) == Cardinality({id \in TimerIds : map[id] /= NoTimer})

ActiveTimers(tm) == Size(tm.timeouts) + Size(tm.intervals)

\* the browser's clearTimeout / clearInterval: a pending timer is cancelled,
\* any other id is ignored
NativeClear(tm, handle) ==
    LET hit == {p \in tm.pending : p.handle = handle} IN
    [tm EXCEPT !.pending = @ \ hit,
               !.cancelled = @ \cup {p.handle : p \in hit}]

\* clearTimeout(id)
clearTimeout(tm, id) ==
    IF tm.timeouts[id] /= NoTimer
    THEN LET cleared == NativeClear(tm, tm.timeouts[id])
             deleted == [cleared EXCEPT !.timeouts[id] = NoTimer]
         IN [deleted EXCEPT !.activeTimers = ActiveTimers(deleted)]
    ELSE tm

\* clearInterval(id)
clearInterval(tm, id) ==
    IF tm.intervals[id] /= NoTimer
    THEN LET cleared == NativeClear(tm, tm.intervals[id])
             deleted == [cleared EXCEPT !.intervals[id] = NoTimer]
         IN [deleted EXCEPT !.activeTimers = ActiveTimers(deleted)]
    ELSE tm

\* setTimeout(id, callback, delay)
setTimeout(tm, id, callback) ==
    IF tm.isDestroyed THEN tm
    ELSE LET cleared == clearTimeout(tm, id)
             created ==
                 [cleared EXCEPT
                     !.pending = @ \cup {NativeTimer(cleared.next, id, callback, FALSE)},
                     !.next = @ + 1,
                     !.timeouts[id] = cleared.next]
         IN [created EXCEPT !.activeTimers = ActiveTimers(created)]

\* setInterval(id, callback, interval)
setInterval(tm, id) ==
    IF tm.isDestroyed THEN tm
    ELSE LET cleared == clearInterval(tm, id)
             created ==
                 [cleared EXCEPT
                     !.pending = @ \cup {NativeTimer(cleared.next, id, "plain", TRUE)},
                     !.next = @ + 1,
                     !.intervals[id] = cleared.next]
         IN [created EXCEPT !.activeTimers = ActiveTimers(created)]

\* the arrow function setTimeout hands to the browser, when timer p fires:
\* the callback runs (`then` is the callback of the timeout it sets when it
\* re-arms itself), and the finally block deletes the id
Fired(tm, p, then) ==
    LET taken == [tm EXCEPT !.pending = @ \ {p}, !.ran = @ \cup {p.handle}]
        called == IF p.callback = "rearm"
                  THEN setTimeout(taken, p.id, then) ELSE taken
        deleted == [called EXCEPT !.timeouts[p.id] = NoTimer]
    IN [deleted EXCEPT !.activeTimers = ActiveTimers(deleted)]

\* clearAll()
clearAll(tm) ==
    LET tracked == {tm.timeouts[id] : id \in TimerIds}
                       \cup {tm.intervals[id] : id \in TimerIds}
        hit == {p \in tm.pending : p.handle \in tracked}
    IN [tm EXCEPT !.pending = @ \ hit,
                  !.cancelled = @ \cup {p.handle : p \in hit},
                  !.timeouts = [id \in TimerIds |-> NoTimer],
                  !.intervals = [id \in TimerIds |-> NoTimer],
                  !.activeTimers = 0]

\* destroy()
destroy(tm) == [clearAll(tm) EXCEPT !.isDestroyed = TRUE]

TimerFrame ==
    <<breakerVars, priceVars, swapVars, limiterVars, apiCacheVars, domBatcher,
      storageVars>>

\* a script calls timerManager.setTimeout(id, callback, delay)
SetTimeout(id, callback) ==
    /\ timerManager.next <= MaxHandles
    /\ timerManager' = setTimeout(timerManager, id, callback)
    /\ UNCHANGED TimerFrame

SetInterval(id) ==
    /\ timerManager.next <= MaxHandles
    /\ timerManager' = setInterval(timerManager, id)
    /\ UNCHANGED TimerFrame

ClearTimeout(id) ==
    /\ timerManager' = clearTimeout(timerManager, id)
    /\ UNCHANGED TimerFrame

ClearInterval(id) ==
    /\ timerManager' = clearInterval(timerManager, id)
    /\ UNCHANGED TimerFrame

\* the delay of a pending timeout has passed
TimeoutFires(p, then) ==
    /\ p \in timerManager.pending
    /\ ~p.repeats
    /\ p.callback = "rearm" => timerManager.next <= MaxHandles
    /\ timerManager' = Fired(timerManager, p, then)
    /\ UNCHANGED TimerFrame

ClearAll ==
    /\ timerManager' = clearAll(timerManager)
    /\ UNCHANGED TimerFrame

Destroy ==
    /\ ~timerManager.isDestroyed
    /\ timerManager' = destroy(timerManager)
    /\ UNCHANGED TimerFrame

---------------------------------------------------------------------------
(* DOMBatcher (src/dom-batcher.js).  The page's scripts run one at a time   *)
(* and to completion, so each call is one step                             *)

UpdateIds == {"u1", "u2", "u3"}

Priorities == {0, 1}

\* what an update function does: it updates the DOM and returns, or it also
\* calls domBatcher.flush()
UpdateFunctions == {"plain", "flush"}

\* the constructor: an empty queue, and startProcessing() has set the interval
InitBatcher ==
    domBatcher =
        [updateQueue |-> <<>>, isProcessing |-> FALSE,
         processingInterval |-> TRUE,
         executed |-> [id \in UpdateIds |-> 0], dropped |-> {},
         returned |-> "constructor", hung |-> FALSE]

\* updateQueue.sort((a, b) => b.priority - a.priority): higher priorities
\* first, equal priorities in their former order
SortByPriority(queue) ==
    SelectSeq(queue, LAMBDA u : u.priority = 1)
        \o SelectSeq(queue, LAMBDA u : u.priority = 0)

\* queueUpdate(updateFunction, id, priority)
queueUpdate(b, id, function, priority) ==
    LET update == [id |-> id, function |-> function, priority |-> priority]
        others == SelectSeq(b.updateQueue, LAMBDA u : u.id /= id)
    IN [b EXCEPT !.updateQueue = SortByPriority(Append(others, update)),
                 !.executed[id] = 0,
                 !.dropped = @ \ {id}]

RECURSIVE flush(_)
RECURSIVE RunUpdates(_, _, _)

\* update.function() inside the forEach of processQueue
RunUpdate(b, update) ==
    LET ran == [b EXCEPT !.executed[update.id] = @ + 1] IN
    IF update.function = "flush" THEN flush(ran) ELSE ran

\* updatesToProcess.forEach(...) from the i-th update on; a call that never
\* returns ends it
RunUpdates(b, updatesToProcess, i) ==
    IF i > Len(updatesToProcess) \/ b.hung THEN b
    ELSE RunUpdates(RunUpdate(b, updatesToProcess[i]), updatesToProcess, i + 1)

\* processQueue()
processQueue(b) ==
    IF b.isProcessing \/ Len(b.updateQueue) = 0 THEN b
    ELSE LET n == Min(batchSize, Len(b.updateQueue))
             spliced == [b EXCEPT
                            !.isProcessing = TRUE,
                            !.updateQueue = SubSeq(@, n + 1, Len(@))]
             done == RunUpdates(spliced, SubSeq(b.updateQueue, 1, n), 1)
         IN IF done.hung THEN done ELSE [done EXCEPT !.isProcessing = FALSE]

\* flush(): while (this.updateQueue.length > 0) this.processQueue().  While
\* isProcessing is set processQueue returns at once, the queue keeps its
\* length and the loop never ends
flush(b) ==
    IF b.hung \/ Len(b.updateQueue) = 0 THEN b
    ELSE IF b.isProcessing THEN [b EXCEPT !.hung = TRUE]
    ELSE flush(processQueue(b))

\* startProcessing()
startProcessing(b) == [b EXCEPT !.processingInterval = TRUE]

\* stopProcessing()
stopProcessing(b) == processQueue([b EXCEPT !.processingInterval = FALSE])

\* clear()
clear(b) ==
    [b EXCEPT !.updateQueue = <<>>,
              !.dropped = @ \cup {b.updateQueue[i].id : i \in DOMAIN b.updateQueue}]

\* DOMBatcher.destroy(): stopProcessing(), then clear()
destroyBatcher(b) ==
    LET stopped == stopProcessing(b) IN
    IF stopped.hung THEN stopped ELSE clear(stopped)

BatcherFrame ==
    <<breakerVars, priceVars, swapVars, limiterVars, apiCacheVars, timerManager,
      storageVars>>

\* the call `name` made by a script of the page has the effect `after`
\* and, unless it never ends, returns
BatcherCall(name, after) ==
    /\ ~domBatcher.hung
    /\ domBatcher' = IF after.hung THEN after ELSE [after EXCEPT !.returned = name]
    /\ UNCHANGED BatcherFrame

QueueUpdate(id, function, priority) ==
    /\ \/ Len(domBatcher.updateQueue) < MaxQueue
       \/ \E i \in DOMAIN domBatcher.updateQueue : domBatcher.updateQueue[i].id = id
    /\ BatcherCall("queueUpdate", queueUpdate(domBatcher, id, function, priority))

\* the 16 ms interval fires
ProcessingIntervalFires ==
    /\ domBatcher.processingInterval
    /\ Len(domBatcher.updateQueue) > 0
    /\ BatcherCall("processQueue", processQueue(domBatcher))

Flush == BatcherCall("flush", flush(domBatcher))

StartProcessing == BatcherCall("startProcessing", startProcessing(domBatcher))

StopProcessing == BatcherCall("stopProcessing", stopProcessing(domBatcher))

ClearBatcher == BatcherCall("clear", clear(domBatcher))

DestroyBatcher == BatcherCall("destroy", destroyBatcher(domBatcher))

---------------------------------------------------------------------------
(* MemoryOptimizer (src/memory-optimizer.js) and localStorage.  A text is  *)
(* the sequence of its characters                                          *)

\* cleanup when 80% full
cleanupThreshold == 80

StorageKeys == {"k1", "k2"}

NoItem == <<>>

\* JSON values
JsonLiteral(text) == [type |-> "literal", text |-> text, members |-> <<>>]

JsonString(text) == [type |-> "string", text |-> text, members |-> <<>>]

JsonArray(items) == [type |-> "array", text |-> <<>>, members |-> items]

JsonMember(key, value) == [key |-> key, value |-> value]

JsonObject(members) == [type |-> "object", text |-> <<>>, members |-> members]

JsonNull == JsonLiteral(<<"n", "u", "l", "l">>)

\* the values scripts store: null, 1, "a", "a  b", "a: b", [], [1, 1],
\* ["a"], {} and {"k": 1}
JsonValues ==
    {JsonNull, JsonLiteral(<<"1">>),
     JsonString(<<"a">>), JsonString(<<"a", " ", " ", "b">>),
     JsonString(<<"a", ":", " ", "b">>),
     JsonArray(<<>>), JsonArray(<<JsonLiteral(<<"1">>), JsonLiteral(<<"1">>)>>),
     JsonArray(<<JsonString(<<"a">>)>>),
     JsonObject(<<>>), JsonObject(<<JsonMember(<<"k">>, JsonLiteral(<<"1">>))>>)}

Quoted(text) == <<"\"">> \o text \o <<"\"">>

\* JSON.stringify(data): no white space outside strings
RECURSIVE JsonStringify(_)
RECURSIVE JsonStringifyMembers(_, _)
JsonStringifyMembers(v, i) ==
    IF i > Len(v.members) THEN <<>>
    ELSE (IF i > 1 THEN <<",">> ELSE <<>>)
         \o (IF v.type = "object"
             THEN Quoted(v.members[i].key) \o <<":">> \o JsonStringify(v.members[i].value)
             ELSE JsonStringify(v.members[i]))
         \o JsonStringifyMembers(v, i + 1)

JsonStringify(v) ==
    CASE v.type = "literal" -> v.text
      [] v.type = "string" -> Quoted(v.text)
      [] v.type = "array" -> <<"[">> \o JsonStringifyMembers(v, 1) \o <<"]">>
      [] v.type = "object" -> <<"{">> \o JsonStringifyMembers(v, 1) \o <<"}">>

\* what JSON.parse does with a text that is not JSON: it throws
SyntaxError == [type |-> "SyntaxError", text |-> <<>>, members |-> <<>>]

\* JSON.parse(text) for the texts the optimizer stores: the text of a value
\* parses to that value; any other text it stores holds a single quote
\* outside a string and is not JSON
JsonParse(text) ==
    IF \E v \in JsonValues : JsonStringify(v) = text
    THEN CHOOSE v \in JsonValues : JsonStringify(v) = text
    ELSE SyntaxError

\* the characters of a text at the positions in keep
RECURSIVE Keep(_, _, _)
Keep(text, keep, i) ==
    IF i > Len(text) THEN <<>>
    ELSE (IF i \in keep THEN <<text[i]>> ELSE <<>>) \o Keep(text, keep, i + 1)

\* position i of text lies in a run of spaces
InRun(text, i) == i \in DOMAIN text /\ text[i] = " "

\* the run of spaces that holds position i begins right after a character c
RECURSIVE RunFollows(_, _, _)
RunFollows(text, i, c) ==
    /\ i > 1
    /\ \/ text[i - 1] = c
       \/ InRun(text, i - 1) /\ RunFollows(text, i - 1, c)

\* the run of spaces that holds position i ends right before a character c
RECURSIVE RunPrecedes(_, _, _)
RunPrecedes(text, i, c) ==
    /\ i < Len(text)
    /\ \/ text[i + 1] = c
       \/ InRun(text, i + 1) /\ RunPrecedes(text, i + 1, c)

\* .replace(/\s+/g, ' ')
CollapseSpaces(text) ==
    Keep(text, {i \in DOMAIN text : ~(InRun(text, i) /\ InRun(text, i - 1))}, 1)

\* .replace(/"/g, "'")
ReplaceQuotes(text) ==
    [i \in DOMAIN text |-> IF text[i] = "\"" THEN "'" ELSE text[i]]

\* .replace(/c\s*/g, 'c')
DropSpacesAfter(text, c) ==
    Keep(text, {i \in DOMAIN text : ~(InRun(text, i) /\ RunFollows(text, i, c))}, 1)

\* .replace(/\s*c/g, 'c')
DropSpacesBefore(text, c) ==
    Keep(text, {i \in DOMAIN text : ~(InRun(text, i) /\ RunPrecedes(text, i, c))}, 1)

\* compress(data)
compress(data) ==
    LET jsonString == JsonStringify(data)
        spaces == CollapseSpaces(jsonString)
        quotes == ReplaceQuotes(spaces)
        colons == DropSpacesAfter(quotes, ":")
        commas == DropSpacesAfter(colons, ",")
        braces == DropSpacesBefore(DropSpacesAfter(commas, "{"), "}")
    IN DropSpacesBefore(DropSpacesAfter(braces, "["), "]")

\* a result of null
Nothing == [type |-> "null", text |-> <<>>, members |-> <<>>]

\* what a caller of getItem holds when the result is the JSON value v
Result(v) == IF v = JsonNull THEN Nothing ELSE v

\* decompress(compressedData): JSON.parse, and null when it throws
decompress(compressedData) ==
    LET parsed == JsonParse(compressedData) IN
    IF parsed = SyntaxError THEN Nothing ELSE Result(parsed)

\* localStorage[key].length + key.length
ItemSize(store, key) ==
    IF store[key] = NoItem THEN 0 ELSE Len(store[key]) + 2

\* getStorageSize()
getStorageSize(store) ==
    LET RECURSIVE Total(_)
        Total(keys) ==
            IF keys = {} THEN 0
            ELSE LET key == CHOOSE k \in keys : TRUE
                 IN ItemSize(store, key) + Total(keys \ {key})
    IN Total(StorageKeys)

\* the orders in which Object.keys(localStorage) may list the keys
KeyOrders == {<<"k1", "k2">>, <<"k2", "k1">>}

\* items.sort(...): the larger item first; items of one size have the
\* timestamp 0 (no stored value has a timestamp) and keep their order
SortBySize(store, keys) ==
    IF ItemSize(store, keys[2]) > ItemSize(store, keys[1])
    THEN <<keys[2], keys[1]>> ELSE keys

\* cleanup(): the largest items are removed until the size is at or below
\* maxStorageSize * cleanupThreshold
cleanup(store, keys) ==
    LET items == SelectSeq(SortBySize(store, keys), LAMBDA k : store[k] /= NoItem)
        RECURSIVE Remove(_, _)
        Remove(st, i) ==
            IF i > Len(items) THEN st
            ELSE IF 100 * getStorageSize(st) <= maxStorageSize * cleanupThreshold
            THEN st
            ELSE Remove([st EXCEPT ![items[i]] = NoItem], i + 1)
    IN Remove(store, 1)

\* setItem(key, data): compress defaults to this.compressionEnabled, which
\* stays true; localStorage.setItem is taken to accept the text
setItem(store, keys, key, data) ==
    LET dataToStore == compress(data)
        cleaned == IF getStorageSize(store) + Len(dataToStore) > maxStorageSize
                   THEN cleanup(store, keys) ELSE store
    IN [cleaned EXCEPT ![key] = dataToStore]

\* getItem(key): decompress defaults to this.compressionEnabled
getItem(store, key) ==
    IF store[key] = NoItem THEN Nothing ELSE decompress(store[key])

NoCall == [op |-> "none", key |-> "none", value |-> Nothing]

Called(op, key, value) == [op |-> op, key |-> key, value |-> value]

InitStorage ==
    /\ localStorage = [key \in StorageKeys |-> NoItem]
    /\ storageReturned = NoCall

StorageFrame ==
    <<breakerVars, priceVars, swapVars, limiterVars, apiCacheVars, timerManager,
      domBatcher>>

SetItem(key, data, keys) ==
    /\ localStorage' = setItem(localStorage, keys, key, data)
    /\ storageReturned' = Called("setItem", key, Result(data))
    /\ UNCHANGED StorageFrame

GetItem(key) ==
    /\ storageReturned' = Called("getItem", key, getItem(localStorage, key))
    /\ UNCHANGED <<localStorage, StorageFrame>>

\* removeItem(key)
RemoveItem(key) ==
    /\ localStorage' = [localStorage EXCEPT ![key] = NoItem]
    /\ storageReturned' = NoCall
    /\ UNCHANGED StorageFrame

\* destroy(): cleanup()
DestroyOptimizer(keys) ==
    /\ localStorage' = cleanup(localStorage, keys)
    /\ storageReturned' = NoCall
    /\ UNCHANGED StorageFrame

---------------------------------------------------------------------------

Init ==
    /\ InitBreaker
    /\ InitSwap
    /\ InitRateLimiter
    /\ InitApiCache
    /\ InitTimers
    /\ InitBatcher
    /\ InitStorage
    /\ InitPrices({DefaultConfig})

NextBreaker ==
    \/ \E c \in Callers : ExecuteWithRetry(c)
    \/ \E c \in Callers : FnResolves(c)
    \/ \E c \in Callers : FnRejects(c)
    \/ \E c \in Callers : RetryAfterDelay(c)
    \/ ResetCircuitBreaker
    \/ Tick

SpecBreaker == Init /\ [][NextBreaker]_vars

\* the server's rate limiter and its clients
NextRateLimit ==
    \/ \E k \in Clients : checkRateLimit(k)
    \/ TickRateLimiter

SpecRateLimit == Init /\ [][NextRateLimit]_vars

\* the three wrappers sharing window.errorRecovery: HTTP calls from one
\* caller, SDK and trading operations from the other
NextWrappers ==
    \/ FetchWithRetry("c1")
    \/ ExecuteSDKOperation("c2")
    \/ ExecuteTradingOperation("c2")
    \/ \E c \in Callers : FnResolves(c)
    \/ \E c \in Callers : FnRejects(c)
    \/ \E c \in Callers : RetryAfterDelay(c)
    \/ Tick

SpecWrappers == Init /\ [][NextWrappers]_vars

\* one request at a time, every upstream answer
InitPass ==
    /\ InitBreaker
    /\ InitSwap
    /\ InitRateLimiter
    /\ InitApiCache
    /\ InitTimers
    /\ InitBatcher
    /\ InitStorage
    /\ InitPrices({DefaultConfig, ConfigWithKey})

NextPass ==
    \/ GetAllPrices("r1")
    \/ \E body \in QuotedBodies : CoinGeckoResponds("r1", body)
    \/ \E body \in QuotedBodies : CoinMarketCapResponds("r1", body)
    \/ \E galaQ \in GalaQuotes, etimeQ \in EtimeQuotes, usdQ \in GalaQuotes :
          GalaChainResponds("r1", galaQ, etimeQ, usdQ)
    \/ TickPrices

SpecPass == InitPass /\ [][NextPass]_vars

\* overlapping requests
NextOverlap ==
    \/ \E r \in Requests : GetAllPrices(r)
    \/ \E r \in Requests, body \in OverlapBodies : CoinGeckoResponds(r, body)
    \/ \E r \in Requests, body \in PlainBodies : CoinMarketCapResponds(r, body)
    \/ \E r \in Requests : GalaChainResponds(r, 200, 2, 200)
    \/ TickPrices

SpecOverlap == InitPass /\ [][NextOverlap]_vars

\* a pass whose sources agree: the sources that answer report one and the
\* same GALA price
AgreeingBodies == {FailedBody, Body(343)}

AgreeingQuotes == {0, 343}

NextAgree ==
    \/ GetAllPrices("r1")
    \/ \E body \in AgreeingBodies : CoinGeckoResponds("r1", body)
    \/ \E body \in AgreeingBodies : CoinMarketCapResponds("r1", body)
    \/ \E galaQ \in AgreeingQuotes :
          GalaChainResponds("r1", galaQ, 2, 343)
    \/ TickPrices

SpecAgree == InitPass /\ [][NextAgree]_vars

\* both price endpoints of the server, one request at a time
NextServer ==
    \/ GetAllPrices("r1")
    \/ GetOptimizedPrices("r1")
    \/ \E body \in PlainBodies : CoinGeckoResponds("r1", body)
    \/ \E galaQ \in ServerQuotes : GalaChainResponds("r1", galaQ, 2, 200)
    \/ TickPrices

SpecServer == Init /\ [][NextServer]_vars

\* the swap endpoint next to the price endpoint
NextSwap ==
    \/ GetAllPrices("r1")
    \/ \E body \in PlainBodies : CoinGeckoResponds("r1", body)
    \/ GalaChainResponds("r1", 200, 2, 200)
    \/ TickPrices
    \/ \E s \in Swappers, pair \in SwapPairs,
          w \in Wallets \cup {None}, k \in Keys \cup {None} :
          SwapRequest(s, pair, w, k)
    \/ \E s \in Swappers, ok \in BOOLEAN : SimulatedQuoteReturns(s, ok)
    \/ \E s \in Swappers, ok \in BOOLEAN, galaTokenBalance \in GalaBalances :
          GetUserAssetsReturns(s, ok, galaTokenBalance)
    \/ \E s \in Swappers, ok \in BOOLEAN : QuoteReturns(s, ok)
    \/ \E s \in Swappers, ok \in BOOLEAN : SwapReturns(s, ok)

SpecSwap == Init /\ [][NextSwap]_vars

\* the page's cache and its callers
NextApiCache ==
    \/ \E call \in ApiCalls, data \in Data, ttl \in Ttls : ApiSet(call, data, ttl)
    \/ \E call \in ApiCalls : ApiGet(call)
    \/ \E call \in ApiCalls : ApiDelete(call)
    \/ ApiClear
    \/ ApiCleanup
    \/ \E call \in FetchCalls : ApiFetch(call)
    \/ \E f \in apiFetches, outcome \in {"ok", "status"}, data \in Data :
          ApiFetchSettles(f, outcome, data)
    \/ TickApiCache

SpecApiCache == Init /\ [][NextApiCache]_vars

\* the page's timers and the scripts that set and clear them
NextTimers ==
    \/ \E id \in TimerIds, callback \in Callbacks : SetTimeout(id, callback)
    \/ \E id \in TimerIds : SetInterval(id)
    \/ \E id \in TimerIds : ClearTimeout(id)
    \/ \E id \in TimerIds : ClearInterval(id)
    \/ \E p \in timerManager.pending, then \in Callbacks : TimeoutFires(p, then)
    \/ ClearAll
    \/ Destroy

SpecTimers == Init /\ [][NextTimers]_vars

\* the page's update queue and the scripts that use it
NextBatcher ==
    \/ \E id \in UpdateIds, function \in UpdateFunctions, priority \in Priorities :
          QueueUpdate(id, function, priority)
    \/ ProcessingIntervalFires
    \/ Flush
    \/ StartProcessing
    \/ StopProcessing
    \/ ClearBatcher
    \/ DestroyBatcher

SpecBatcher == Init /\ [][NextBatcher]_vars

\* the page's storage and the scripts that use it
NextStorage ==
    \/ \E key \in StorageKeys, data \in JsonValues, keys \in KeyOrders :
          SetItem(key, data, keys)
    \/ \E key \in StorageKeys : GetItem(key)
    \/ \E key \in StorageKeys : RemoveItem(key)
    \/ \E keys \in KeyOrders : DestroyOptimizer(keys)

SpecStorage == Init /\ [][NextStorage]_vars

---------------------------------------------------------------------------
(* Circuit breaker properties *)

\* a call of caller c ends in this step
CallEnds(c) == pc[c] /= "idle" /\ pc'[c] = "idle"

\* C3: a call made while the breaker is OPEN and recoveryTimeout has not
\* elapsed never invokes the wrapped function (unless the breaker is reset
\* by hand meanwhile), and it ends with the circuit-open error.
C3_OpenCallNeverInvokes ==
    /\ [](\A c \in Callers :
            (obs[c].startedOpen /\ ~obs[c].reset) => ~obs[c].fnInvoked)
    /\ [][\A c \in Callers :
            (CallEnds(c) /\ obs[c].startedOpen /\ ~obs[c].reset)
                => lastError'[c] = "open"]_vars

\* C3 witness: a call that began refused has been refused again on its retries
C3_Witness ==
    \E c \in Callers :
        /\ obs[c].startedOpen /\ ~obs[c].reset
        /\ pc[c] = "sleeping" /\ attempt[c] = maxRetries - 1
        /\ circuitBreaker.failureCount >= failureThreshold

\* C4: at most one call has its function in flight as the HALF_OPEN trial.
C4_SingleTrial ==
    Cardinality({c \in Callers : pc[c] = "inflight" /\ obs[c].trial}) <= 1

\* C8: one executeWithRetry call records at most one failure with the breaker.
C8_OneFailurePerCall ==
    \A c \in Callers : obs[c].recorded <= 1

\* C9: the breaker moves from CLOSED to OPEN only on the failureThreshold-th
\* failure in a row, no success of fn between them.
C9_OpensOnConsecutiveFailures ==
    [][(circuitBreaker.state = "CLOSED" /\ circuitBreaker'.state = "OPEN")
          => streak + 1 >= failureThreshold]_vars

\* C10: a call made recoveryTimeout or more after the breaker opened has its
\* function invoked, whatever was refused in between.
C10_RecoveryNotPostponed ==
    [][\A c \in Callers :
          (ExecuteWithRetry(c) /\ circuitBreaker.state = "OPEN"
              /\ sinceOpened >= recoveryTimeout) => pc'[c] = "inflight"]_vars

\* C11: when fn succeeds while the breaker is HALF_OPEN the breaker becomes
\* CLOSED with failureCount 0; when fn fails while it is HALF_OPEN the breaker
\* becomes OPEN again and its opening time is the time of that failure.
C11_HalfOpenTransitions ==
    [][\A c \in Callers :
          /\ (FnResolves(c) /\ circuitBreaker.state = "HALF_OPEN")
                => /\ circuitBreaker'.state = "CLOSED"
                   /\ circuitBreaker'.failureCount = 0
          /\ (FnRejects(c) /\ circuitBreaker.state = "HALF_OPEN")
                => /\ circuitBreaker'.state = "OPEN"
                   /\ circuitBreaker'.sinceFailure = 0
                   /\ sinceOpened' = 0]_vars

\* C11 witness: the trial call has just failed and the breaker is OPEN anew
C11_Witness ==
    \E c \in Callers :
        /\ pc[c] = "sleeping" /\ obs[c].trial /\ ~obs[c].reset
        /\ timer[c] = BackoffDelay(attempt[c])
        /\ circuitBreaker.state = "OPEN"
        /\ circuitBreaker.sinceFailure = 0 /\ sinceOpened = 0

\* C14: a call made while the breaker refuses calls ends in the same step
\* with the circuit-open error: no delay is waited and nothing is retried.
C14_RejectsImmediately ==
    [][\A c \in Callers :
          (ExecuteWithRetry(c) /\ CircuitRejects(circuitBreaker))
              => (pc'[c] = "idle" /\ lastError'[c] = "open")]_vars

\* a call of caller c starts in this step
CallStarts(c) == pc[c] = "idle" /\ obs'[c].dependency /= "none"

\* C12: a call is refused as circuit-open only if a call to the same
\* dependency has failed since the breaker's count was last zero.
C12_BreakerPerDependency ==
    [][\A c \in Callers :
          (CallStarts(c) /\ obs'[c].startedOpen)
              => obs'[c].dependency \in failedDeps]_vars

\* C13: one call invokes the wrapped function at most config.maxRetries times.
C13_AtMostMaxRetriesAttempts ==
    \A c \in Callers : obs[c].invoked <= config[c].maxRetries

\* caller c starts to wait for a retry in this step
StartsDelay(c) ==
    /\ pc'[c] = "sleeping"
    /\ pc[c] /= "sleeping" \/ attempt'[c] /= attempt[c]

\* C27: the wait before retry number k (k = 0 for the first retry) is
\* min(baseDelay * backoffMultiplier^k, maxDelay), which is 1, 2 and 4 seconds
\* under the default retryConfig; no wait is longer than maxDelay, and a wait
\* ends only when its whole time has passed.
C27_BackoffDelay ==
    /\ [](\A k \in 0..(maxRetries - 1) : BackoffDelay(k) = <<1, 2, 4>>[k + 1])
    /\ [][\A c \in Callers :
            /\ StartsDelay(c) =>
                  /\ \/ timer'[c] = config'[c].baseDelay
                                       * Pow(backoffMultiplier, attempt'[c])
                     \/ /\ timer'[c] = maxDelay
                        /\ config'[c].baseDelay
                               * Pow(backoffMultiplier, attempt'[c]) > maxDelay
                  /\ timer'[c] <= maxDelay
            /\ (pc[c] = "sleeping" /\ ~StartsDelay(c)) =>
                  \/ pc'[c] = "sleeping" /\ timer'[c] \in {timer[c], timer[c] - 1}
                  \/ pc'[c] /= "sleeping" /\ timer[c] = 0]_vars

\* C27 witness: the third retry of an SDK operation (baseDelay 3 s) is waited
\* for with the capped delay, 10 s instead of 12 s
C27_Witness ==
    \E c \in Callers :
        /\ pc[c] = "sleeping" /\ attempt[c] = 2
        /\ config[c].baseDelay = 3
        /\ timer[c] = maxDelay

\* C30: in every state reached through executeWithRetry and
\* resetCircuitBreaker, a CLOSED breaker has failureCount below
\* failureThreshold and an OPEN breaker has failureCount at or above it.
C30_StateMatchesFailureCount ==
    /\ circuitBreaker.state = "CLOSED"
          => circuitBreaker.failureCount < failureThreshold
    /\ circuitBreaker.state = "OPEN"
          => circuitBreaker.failureCount >= failureThreshold

\* C30 witness: the breaker was reset while a call was under way and the
\* failures recorded since have brought it one short of the threshold
C30_Witness ==
    /\ circuitBreaker.state = "CLOSED"
    /\ circuitBreaker.failureCount = failureThreshold - 1
    /\ \E c \in Callers : pc[c] /= "idle" /\ obs[c].reset

---------------------------------------------------------------------------
(* Rate limiter properties *)

\* C15: checkRateLimit admits a call exactly when fewer than
\* MAX_REQUESTS_PER_WINDOW calls of the client were admitted within the
\* trailing window; an admitted call is recorded, a denied call leaves the
\* client's list as it was, and no client ever has more than the quota
\* admitted within the window.
C15_RateLimitQuota ==
    /\ [][\A k \in Clients :
            checkRateLimit(k) =>
                /\ (allowed'[k] = "admitted")
                       <=> (Len(admitted[k]) < MAX_REQUESTS_PER_WINDOW)
                /\ (allowed'[k] = "admitted")
                       => rateLimiter'[k] = Append(admitted[k], 0)
                /\ (allowed'[k] = "denied") => rateLimiter'[k] = rateLimiter[k]
                /\ \A j \in Clients \ {k} : rateLimiter'[j] = rateLimiter[j]]_vars
    /\ [](\A k \in Clients : Len(admitted[k]) <= MAX_REQUESTS_PER_WINDOW)

\* C15 witness: a client with its quota used up has been denied while the
\* other client was admitted
C15_Witness ==
    \E k \in Clients, j \in Clients :
        /\ allowed[k] = "denied"
        /\ Len(admitted[k]) = MAX_REQUESTS_PER_WINDOW
        /\ allowed[j] = "admitted"
        /\ Len(admitted[j]) < Len(rateLimiter[j])

---------------------------------------------------------------------------
(* Price properties *)

\* the sources of a result whose price for token t the upstream reported
Genuine(result, t) ==
    {s \in DOMAIN result.sources : t \in result.sources[s].genuine}

\* p is a price reported for t, or the mean of reported prices
Reported(result, t, p) ==
    \E S \in SUBSET Genuine(result, t) :
        /\ S /= {}
        /\ p = Average([s \in S |-> result.sources[s].prices[t]])

\* C1: every published price is a price a source reported for the token in
\* that pass, or the mean of such prices, and a source whose quote failed
\* contributes no price for the token.
C1_NoFabricatedPrice ==
    cache.present =>
        /\ \A t \in DOMAIN cache.value.finalPrices :
              Reported(cache.value, t, cache.value.finalPrices[t])
        /\ \A s \in DOMAIN cache.value.sources :
              DOMAIN cache.value.sources[s].prices
                  \subseteq cache.value.sources[s].genuine

\* request r sends an outbound request to source s in this step
Sends(r, s) ==
    req[r].results[s].status /= "pending" /\ req'[r].results[s].status = "pending"

\* C5: a request is sent to a source only when the source's minimum interval
\* has passed since the last request sent to it, so of two overlapping calls
\* at most one sends.
C5_OneAdmittedPerSlot ==
    [][\A r \in Requests, s \in Sources :
          Sends(r, s) => sinceSent[s] >= RequestGap(s)]_vars

\* C6: the cached result comes from a pass in which at least one source
\* adapter succeeded; a pass in which every source failed is not cached.
C6_PublishNeedsSuccess ==
    cache.present =>
        \E s \in DOMAIN cache.value.sources :
            cache.value.sources[s].status = "ok"

\* C7: every price answer was computed less than FreshnessLimit seconds ago.
C7_ServedPricesFresh ==
    served.sent => served.age < FreshnessLimit

\* the handler of s calls swaps.swap in this step
Submits(s) == swap[s].phase /= "swaps.swap" /\ swap'[s].phase = "swaps.swap"

\* C2: swaps.swap is never called when FreshnessLimit seconds or more have
\* passed since the price of the input or the output token was computed.
C2_NoSwapOnStalePrice ==
    [][\A s \in Swappers :
          Submits(s) =>
              \A t \in {swap'[s].tokenIn, swap'[s].tokenOut} :
                  sincePriced[t] = Never \/ sincePriced[t] < FreshnessLimit]_vars

\* getAllPrices call r misses the cache and starts a pass in this step
StartsPass(r) == GetAllPrices(r) /\ ~CacheHit(cache, cachePriceTtl)

\* C16: an enabled source is denied by the limiter only when its
\* requests-per-minute quota of requests has been sent to it.
C16_DeniedOnlyAtQuota ==
    [][\A r \in Requests, s \in Sources :
          (StartsPass(r) /\ priceSources[s].enabled /\ ~canMakeRequest(s))
              => (sentCount[s] = MaxSent \/ sentCount[s] >= rateLimit(s))]_vars

\* C17: once no request to a source is pending, the source's lastRequest is
\* no older than the last request sent to it, whether that request succeeded
\* or failed.
C17_EveryAdmittedFetchRecorded ==
    \A s \in Sources :
        (\A r \in Requests : req[r].results[s].status /= "pending")
            => priceSources[s].sinceRequest <= sinceSent[s]

\* the positive prices the sources of a result returned for token t
SourcePrices(result, t) ==
    LET from == {s \in DOMAIN result.sources :
                    /\ t \in DOMAIN result.sources[s].prices
                    /\ result.sources[s].prices[t] > 0}
    IN [s \in from |-> result.sources[s].prices[t]]

\* the arithmetic mean of a nonempty set of source prices, as a Number
Mean(prices) ==
    Divide(Reduce(prices, Len(SourceOrder)), <<Cardinality(DOMAIN prices), 1>>)

\* (max - min) / average * 100 < maxVariancePercent
LowVariance(prices) ==
    LET from == DOMAIN prices IN
    FracLess(Variance(MaxOver(prices, from), MinOver(prices, from),
                      Mean(prices)),
             <<maxVariancePercent, 1>>)

\* C18: for every token whose source prices have a variance below
\* maxVariancePercent the recommended price is the arithmetic mean of the
\* contributing prices, its source is 'average', and it is the final price.
C18_LowVarianceUsesMean ==
    cache.present =>
        \A t \in Tokens :
            LET prices == SourcePrices(cache.value, t) IN
            (DOMAIN prices /= {} /\ LowVariance(prices) /\ fallbackToAverage)
                => /\ t \in DOMAIN cache.value.comparison
                   /\ cache.value.comparison[t].recommended
                          = [source |-> "average", price |-> Mean(prices)]
                   /\ cache.value.finalPrices[t] = Mean(prices)

\* C18 witness: 0.0190 and 0.0180 from two sources, nothing from the third,
\* recommended 0.0185
C18_Witness ==
    /\ cache.present
    /\ "coinmarketcap" \in DOMAIN cache.value.sources
    /\ SourcePrices(cache.value, "GALA")
           = [s \in {"coingecko", "galachain"} |->
                 IF s = "coingecko" THEN 190 ELSE 180]
    /\ cache.value.finalPrices["GALA"] = <<185, 1>>

\* the first source of the priority list with a price
FirstAvailable(prices) ==
    IF "coinmarketcap" \in DOMAIN prices THEN "coinmarketcap"
    ELSE IF "coingecko" \in DOMAIN prices THEN "coingecko"
    ELSE "galachain"

\* C19: for every token whose variance is at or above maxVariancePercent the
\* recommended price is the price of the first of coinmarketcap, coingecko,
\* galachain that has a price for the token, not the mean.
C19_HighVarianceUsesPriority ==
    cache.present =>
        \A t \in Tokens :
            LET prices == SourcePrices(cache.value, t) IN
            (DOMAIN prices /= {} /\ ~LowVariance(prices))
                => /\ t \in DOMAIN cache.value.comparison
                   /\ cache.value.comparison[t].recommended
                          = [source |-> FirstAvailable(prices),
                             price |-> Frac(prices[FirstAvailable(prices)], 1)]
                   /\ cache.value.finalPrices[t]
                          = Frac(prices[FirstAvailable(prices)], 1)

\* C19 witness: three sources disagree on GALA and coinmarketcap is taken
C19_Witness ==
    /\ cache.present
    /\ DOMAIN SourcePrices(cache.value, "GALA") = Sources
    /\ ~LowVariance(SourcePrices(cache.value, "GALA"))
    /\ cache.value.comparison["GALA"].recommended.source = "coinmarketcap"
    /\ cache.value.finalPrices["GALA"] /= Mean(SourcePrices(cache.value, "GALA"))

C31_RecommendedWithinRange ==
    cache.present =>
        \A t \in DOMAIN cache.value.comparison :
            LET entry == cache.value.comparison[t]
                source == entry.recommended.source
            IN /\ ~FracLess(entry.recommended.price, <<entry.min, 1>>)
               /\ ~FracLess(<<entry.max, 1>>, entry.recommended.price)
               /\ \/ source = "average"
                  \/ /\ source \in DOMAIN SourcePrices(cache.value, t)
                     /\ priceSources[source].enabled

\* C32: while the cache holds an unexpired result, a getAllPrices call
\* returns that result, starts no fetch (no adapter is invoked) and changes
\* neither a source's lastRequest nor what was sent to it, nor the cache.
C32_CacheHitTouchesNothing ==
    [][\A r \in Requests :
          (cache.present /\ cache.sinceSet < cachePriceTtl /\ GetAllPrices(r))
              => /\ served' = Answer("getAllPrices", cache.value.finalPrices,
                                     cache.sinceSet)
                 /\ req' = req
                 /\ priceSources' = priceSources
                 /\ sinceSent' = sinceSent /\ sentCount' = sentCount
                 /\ cache' = cache]_vars

\* C32 witness: a call was answered from a result computed 29 seconds
\* earlier, the last second in which it is served
C32_Witness ==
    /\ served.sent /\ served.by = "getAllPrices"
    /\ served.age = cachePriceTtl - 1
    /\ cache.present /\ cache.sinceSet = cachePriceTtl - 1
    /\ \A r \in Requests : req[r].phase = "idle"

\* a getAllPrices call of r ends in this step
PassEnds(r) ==
    /\ req'[r].phase = "idle"
    /\ \/ req[r].phase = "fetching"
       \/ GetAllPrices(r) /\ ~CacheHit(cache, cachePriceTtl)

RequestDeadline == 10

\* C22: a fetch that has been pending for RequestDeadline seconds is given
\* up.  A call that is still fetching while the cache holds a result started
\* before that result was stored (it missed the cache), so none of its
\* fetches is pending once the cached result is RequestDeadline seconds old.
C22_OverdueFetchAbandoned ==
    \A r \in Requests, s \in Sources :
        (req[r].results[s].status = "pending" /\ cache.present)
            => cache.sinceSet < RequestDeadline

\* C23: a getAllPrices call compares and publishes only when every fetch it
\* started has settled: the result it returns has a settled result, ok or
\* error, for every enabled source, and the step that ends the call is the
\* one that settles its last pending fetch.
C23_CompareAfterAllSettled ==
    [][\A r \in Requests :
          (PassEnds(r) /\ served'.sent) =>
              /\ cache'.present /\ cache'.sinceSet = 0
              /\ \A s \in Sources :
                    priceSources[s].enabled =>
                        /\ s \in DOMAIN cache'.value.sources
                        /\ cache'.value.sources[s].status \in {"ok", "error"}
              /\ Cardinality({s \in Sources :
                                 req[r].results[s].status = "pending"}) <= 1]_vars

\* C23 witness: with three sources enabled one fetch has succeeded, one has
\* failed and the call, nothing published, waits for the third
C23_Witness ==
    \E r \in Requests :
        /\ req[r].phase = "fetching" /\ ~cache.present
        /\ \E s \in Sources : req[r].results[s].status = "ok"
        /\ \E s \in Sources : req[r].results[s].status = "error"
        /\ \E s \in Sources : req[r].results[s].status = "pending"

-------------------------------------------------------------------------------------------------------------------------------------------
(* Swap endpoint properties *)

\* C28: every swap the endpoint executes is signed by a signer built from
\* the private key and wallet address of the request being served (the
\* handler stores them in the globals before it builds the signer).
C28_SignerOfServedRequest ==
    \A s \in Swappers :
        swap[s].phase = "swaps.swap" =>
            /\ swap[s].submitted.signer = privateKey
            /\ gswapWithSigner.walletAddress = walletAddress

\* the handler of s answers in this step after at least one await
AnswersSwap(s) == swap[s].phase /= "idle" /\ swap'[s].phase = "idle"

\* C29: the endpoint answers success: true only when swaps.swap was called
\* through the signer for the request, and a request served without a
\* private key is answered with an error.
C29_SuccessOnlyAfterRealSwap ==
    [][\A s \in Swappers :
          AnswersSwap(s) =>
              /\ swap'[s].response.success => swap[s].phase = "swaps.swap"
              /\ swap[s].phase = "simulatedQuote"
                    => ~swap'[s].response.success]_vars

---------------------------------------------------------------------------
(* TimerManager properties *)

\* the native timeouts that have neither fired nor been cleared
PendingTimeouts == {p \in timerManager.pending : ~p.repeats}

\* hasTimeout(id)
hasTimeout(id) == timerManager.timeouts[id] /= NoTimer

\* C33: every timeout created through setTimeout that has neither fired nor
\* been cleared is tracked in the timeouts map under its id, so hasTimeout
\* reports it and clearAll / destroy cancel it.
C33_PendingTimeoutTracked ==
    \A p \in PendingTimeouts :
        /\ hasTimeout(p.id)
        /\ timerManager.timeouts[p.id] = p.handle
        /\ p \notin clearAll(timerManager).pending

\* C34: at most one timeout is pending per id, and the callback of a
\* cancelled timeout never runs.
C34_OnePendingPerId ==
    /\ \A p, q \in PendingTimeouts : p.id = q.id => p = q
    /\ timerManager.ran \cap timerManager.cancelled = {}

---------------------------------------------------------------------------
(* DOMBatcher properties *)

\* the ids of the queued updates
Queued(b) == {b.updateQueue[i].id : i \in DOMAIN b.updateQueue}

\* C35: flush always terminates, also when it is called from inside an
\* update function that is being processed, and when it returns the queue
\* is empty and every update that was queued has been executed once.
C35_FlushEmptiesQueue ==
    /\ [](~domBatcher.hung)
    /\ [][domBatcher'.returned = "flush" =>
             /\ domBatcher'.updateQueue = <<>>
             /\ \A id \in Queued(domBatcher) :
                   domBatcher'.executed[id] = 1]_vars

\* C36: when stopProcessing returns no queued update is left unprocessed,
\* whatever the length of the queue, and destroy drops none.
C36_StopProcessesAll ==
    [][/\ domBatcher'.returned = "stopProcessing"
            => domBatcher'.updateQueue = <<>>
       /\ domBatcher'.returned = "destroy"
            => domBatcher'.dropped = domBatcher.dropped]_vars

---------------------------------------------------------------------------
(* MemoryOptimizer properties *)

\* C37: getItem(key) right after setItem(key, v), both with compression
\* enabled, returns a value equal to v.
C37_GetItemReturnsStored ==
    [][\A key \in StorageKeys :
          (storageReturned.op = "setItem" /\ storageReturned.key = key
               /\ GetItem(key))
              => storageReturned'.value = storageReturned.value]_vars

-----------
(* APICache properties *)

\* the keys of the Map
MapKeys(entries) == {entries[i].key : i \in DOMAIN entries}

\* C24: a get of the key made right after a set, at the same clock reading,
\* returns the value that set was given and keeps the entry; a get made when
\* the entry's ttl or more has passed since it was set returns null and
\* removes the entry.
C24_GetAfterSet ==
    [][/\ (apiReturned.op = "set" /\ apiReturned'.op = "get") =>
            \A call \in ApiCalls :
                (KeyOf(call) = apiReturned.key /\ ApiGet(call)) =>
                    /\ apiReturned'.value = apiReturned.value
                    /\ apiCache' = apiCache
       /\ apiReturned'.op = "get" =>
            \A call \in ApiCalls :
                LET i == MapIndex(apiCache, KeyOf(call)) IN
                (/\ i /= 0
                 /\ apiNow >= apiCache[i].created + apiCache[i].ttl
                 /\ ApiGet(call)) =>
                    /\ apiReturned'.value = Null
                    /\ KeyOf(call) \notin MapKeys(apiCache')]_vars

\* C24 witness: a get has found an entry whose ttl had run out, has returned
\* null and has removed it, another entry staying
C24_Witness ==
    /\ apiReturned = Return("get", Null, TRUE)
    /\ Len(apiCache) = 1
    /\ apiStats.size = 2

\* C25: the cache never holds more than maxCacheSize entries.
C25_CapacityBounded == Len(apiCache) <= maxCacheSize

\* C26: a set of a new key into a full cache removes exactly one entry, one
\* with the earliest creation time, and adds the new one.
C26_EvictsEarliestCreated ==
    [][\A call \in ApiCalls, data \in Data, ttl \in Ttls :
          (/\ ApiSet(call, data, ttl)
           /\ Len(apiCache) >= maxCacheSize
           /\ KeyOf(call) \notin MapKeys(apiCache)) =>
              \E i \in DOMAIN apiCache :
                  /\ \A j \in DOMAIN apiCache :
                        apiCache[i].created <= apiCache[j].created
                  /\ MapKeys(apiCache')
                        = (MapKeys(apiCache) \ {apiCache[i].key})
                              \cup {KeyOf(call)}]_vars

=============================================================================
